---- MODULE Spec2Model ----
(***************************************************************************)
(* Vehicle component configuration engine of the ArduPilot Methodic        *)
(* Configurator: the document repository (VehicleComponents), the          *)
(* migration pass (update_vehicle_components) and the component editor's   *)
(* template operations (ComponentEditorWindowBase).                        *)
(*                                                                         *)
(* JSON values are tagged records [k, t, v]:                               *)
(*   t = "dict"  : v is a function key -> value, k the key insertion order *)
(*   t = "list"  : v is a sequence of values                               *)
(*   t = "str"   : v is a sequence of one-character strings                *)
(*   t = "int"   : v is an integer                                         *)
(*   t = "float" : v is the number in tenths (15 is 1.5)                   *)
(*   t = "bool"  : v is a BOOLEAN                                          *)
(*   t = "null"  : Python None                                             *)
(* k is <<>> for everything but a dict.                                    *)
(***************************************************************************)
EXTENDS Integers, Sequences, FiniteSets, TLC

VARIABLES
    vehicle_components,  \* LocalFilesystem.vehicle_components / VehicleComponents.vehicle_components
    mig_input,           \* the document handed to the last update_vehicle_components call
    mig_err,             \* "none", "KeyError" or "TypeError": how that call ended
    mig_runs,            \* number of update_vehicle_components calls so far
    vehicle_file,        \* content of vehicle_components.json in the vehicle directory
    save_result,         \* (failed, msg) of the last save_vehicle_components_json_data call
    wipe_input,          \* vehicle_components as it was before the last wipe_component_info call
    wipe_runs,           \* number of wipe_component_info calls so far
    fw_version,          \* return value of the last get_fc_fw_version_from_vehicle_components_json call
    fw_queries,          \* number of firmware queries made so far
    fw_type,             \* return value of the last get_fc_fw_type_from_vehicle_components_json call
    fw_query,            \* the last firmware query made: "none", "version" or "type"
    entry_widgets,       \* ComponentEditorWindowBase.entry_widgets: path -> text of the entry
    widget_order,        \* the paths of entry_widgets in insertion order
    buttons,             \* template_controls["buttons"]: components with template controls
    templates_file,      \* content of vehicle_components_template.json
    tmpl_save,           \* outcome of the last save_component_templates call
    editor_open,         \* the editor window exists (root not destroyed)
    disabled_entries,    \* the paths of the entries whose state is "disabled"
    last,                \* the last editor operation, its arguments and the state before it
    schema,              \* VehicleComponents.schema: the cached schema, None until one was read
    schema_file,         \* content of vehicle_components_schema.json
    schema_reads,        \* number of times load_schema opened the schema file
    call                 \* the last repository call, its arguments, results and the state before it

migVars == <<mig_input, mig_err, mig_runs>>
repoVars == <<vehicle_components, vehicle_file, save_result>>
wipeVars == <<wipe_input, wipe_runs>>
fwVars == <<fw_version, fw_queries, fw_type, fw_query>>
editorVars == <<entry_widgets, widget_order, buttons, templates_file, tmpl_save, editor_open,
                disabled_entries, last>>
schemaVars == <<schema, schema_file, schema_reads, call>>
vars == <<vehicle_components, mig_input, mig_err, mig_runs, vehicle_file, save_result,
          wipe_input, wipe_runs, fw_version, fw_queries, fw_type, fw_query,
          entry_widgets, widget_order, buttons, templates_file, tmpl_save, editor_open,
          disabled_entries, last,
          schema, schema_file, schema_reads, call>>

----------------------------------------------------------------------------
(* JSON values *)

JInt(n) == [k |-> <<>>, t |-> "int", v |-> n]
JFloat(n) == [k |-> <<>>, t |-> "float", v |-> n]
JBool(b) == [k |-> <<>>, t |-> "bool", v |-> b]
JStr(s) == [k |-> <<>>, t |-> "str", v |-> s]
JList(s) == [k |-> <<>>, t |-> "list", v |-> s]
JNone == [k |-> <<>>, t |-> "null", v |-> 0]
EmptyDict == [k |-> <<>>, t |-> "dict", v |-> <<>>]

IsDict(x) == x.t = "dict"

\* key in d, for a dict d
Has(d, key) == key \in DOMAIN d.v

\* d[key] = x : an existing key keeps its position, a new key goes last
Put(d, key, x) ==
    [k |-> IF Has(d, key) THEN d.k ELSE Append(d.k, key),
     t |-> "dict",
     v |-> [q \in (DOMAIN d.v) \cup {key} |-> IF q = key THEN x ELSE d.v[q]]]

\* del d[key]
Del(d, key) ==
    [k |-> SelectSeq(d.k, LAMBDA q : q # key),
     t |-> "dict",
     v |-> [q \in (DOMAIN d.v) \ {key} |-> d.v[q]]]

\* mapping literals
Dict1(k1, x1) == Put(EmptyDict, k1, x1)
Dict2(k1, x1, k2, x2) == Put(Dict1(k1, x1), k2, x2)
Dict3(k1, x1, k2, x2, k3, x3) == Put(Dict2(k1, x1, k2, x2), k3, x3)

\* two string leaves
LeafA == JStr(<<"a">>)
LeafB == JStr(<<"b">>)

\* Python truthiness of a value (`if not data`, `if components`)
Truthy(x) ==
    CASE x.t = "dict" -> DOMAIN x.v # {}
      [] x.t = "list" -> Len(x.v) > 0
      [] x.t = "str" -> Len(x.v) > 0
      [] x.t = "int" -> x.v # 0
      [] x.t = "float" -> x.v # 0
      [] x.t = "bool" -> x.v
      [] OTHER -> FALSE

\* marks an optional key that an input document leaves out
Absent == [k |-> <<>>, t |-> "absent", v |-> 0]

PutOpt(d, key, x) == IF x = Absent THEN d ELSE Put(d, key, x)

----------------------------------------------------------------------------
(* update_vehicle_templates.py : the migration pass *)

\* characters of the strings the migration writes
LipoStr == <<"L", "i", "p", "o">>
UnknownStr == <<"U", "n", "k">>
\* ardupilot_methodic_configurator.__version__
ProgramVersion == <<"2", ".", "0">>

\* an interrupted or finished run: the document as mutated so far, the value
\* returned (ret, meaningful when err = "none") and the exception raised
Ok(d) == [doc |-> d, ret |-> d, err |-> "none"]
Raised(d, e) == [doc |-> d, ret |-> JNone, err |-> e]

\* the node of document d at the key sequence path (all keys exist)
RECURSIVE Resolve(_, _)
Resolve(d, path) ==
    IF path = <<>> THEN d ELSE Resolve(d.v[Head(path)], Tail(path))

\* d with the node at path replaced by x (all keys but the last exist)
RECURSIVE Assign(_, _, _)
Assign(d, path, x) ==
    IF Len(path) = 1 THEN Put(d, path[1], x)
    ELSE Put(d, Head(path), Assign(d.v[Head(path)], Tail(path), x))

\* if key not in data[path...]: data[path...][key] = default
\* On a str or list node the membership test is false and the item
\* assignment raises TypeError; on a number, bool or None the membership
\* test itself raises TypeError.
EnsureKey(r, path, key, default) ==
    IF r.err # "none" THEN r
    ELSE LET node == Resolve(r.doc, path) IN
         IF ~IsDict(node) THEN Raised(r.doc, "TypeError")
         ELSE IF Has(node, key) THEN r
         ELSE Ok(Assign(r.doc, path \o <<key>>, default))

\* a rename that keeps a "GNSS Receiver" entry the document already has
RenameGNSS_KeepsCurrent(r) ==
    IF r.err # "none" THEN r
    ELSE LET comps == r.doc.v["Components"] IN
         IF Has(comps, "GNSS receiver")
         THEN Ok(Put(r.doc, "Components",
                     IF Has(comps, "GNSS Receiver") THEN Del(comps, "GNSS receiver")
                     ELSE Put(Del(comps, "GNSS receiver"), "GNSS Receiver",
                              comps.v["GNSS receiver"])))
         ELSE r

\* lines 80-82: rename "GNSS receiver" to "GNSS Receiver"
RenameGNSS(r) ==
    IF r.err # "none" THEN r
    ELSE LET comps == r.doc.v["Components"] IN
         IF Has(comps, "GNSS receiver")
         THEN Ok(Put(r.doc, "Components",
                     Put(Del(comps, "GNSS receiver"), "GNSS Receiver", comps.v["GNSS receiver"])))
         ELSE r

\* line 84: data["Program version"] = __version__
StampVersion(r) ==
    IF r.err # "none" THEN r
    ELSE Ok(Put(r.doc, "Program version", JStr(ProgramVersion)))

\* lines 89-95: a Flight Controller without Specifications is rebuilt from
\* its Product, Firmware and Notes entries
RebuildFC(r) ==
    IF r.err # "none" THEN r
    ELSE LET fc == r.doc.v["Components"].v["Flight Controller"] IN
         IF ~IsDict(fc) THEN Raised(r.doc, "TypeError")
         ELSE IF Has(fc, "Specifications") THEN r
         ELSE IF ~({"Product", "Firmware", "Notes"} \subseteq DOMAIN fc.v)
              THEN Raised(r.doc, "KeyError")
         ELSE Ok(Assign(r.doc, <<"Components", "Flight Controller">>,
                 Put(Put(Put(Put(EmptyDict,
                     "Product", fc.v["Product"]),
                     "Firmware", fc.v["Firmware"]),
                     "Specifications", Put(EmptyDict, "MCU Series", JStr(UnknownStr))),
                     "Notes", fc.v["Notes"])))

\* lines 58-96: the body run on a non-empty document
MigrateNonEmpty(data) ==
    LET r0 == Ok(data)
        r1 == EnsureKey(r0, <<>>, "Components", EmptyDict)
        r2 == EnsureKey(r1, <<"Components">>, "Battery", EmptyDict)
        r3 == EnsureKey(r2, <<"Components", "Battery">>, "Specifications", EmptyDict)
        r4 == EnsureKey(r3, <<"Components", "Battery", "Specifications">>, "Chemistry", JStr(LipoStr))
        r5 == EnsureKey(r4, <<"Components", "Battery", "Specifications">>, "Capacity mAh", JInt(0))
        r6 == EnsureKey(r5, <<"Components">>, "Frame", EmptyDict)
        r7 == EnsureKey(r6, <<"Components", "Frame">>, "Specifications", EmptyDict)
        r8 == EnsureKey(r7, <<"Components", "Frame", "Specifications">>, "TOW min Kg", JInt(1))
        r9 == EnsureKey(r8, <<"Components", "Frame", "Specifications">>, "TOW max Kg", JInt(1))
        r10 == RenameGNSS(r9)
        r11 == StampVersion(r10)
        r12 == EnsureKey(r11, <<"Components">>, "Flight Controller", EmptyDict)
    IN  RebuildFC(r12)

\* update_vehicle_components whose early return for an empty document
\* carries the version stamp
update_vehicle_components_StampEmpty(data) ==
    IF ~Truthy(data)
    THEN [doc |-> data, ret |-> Put(EmptyDict, "Program version", JStr(ProgramVersion)), err |-> "none"]
    ELSE MigrateNonEmpty(data)

update_vehicle_components(data) ==
    IF ~Truthy(data) THEN [doc |-> data, ret |-> EmptyDict, err |-> "none"]
    ELSE MigrateNonEmpty(data)

----------------------------------------------------------------------------
(* backend_filesystem_vehicle_components.py : persistence *)

\* file contents that are not a JSON document
FileAbsent == [k |-> <<>>, t |-> "nofile", v |-> 0]
Malformed == [k |-> <<>>, t |-> "malformed", v |-> 0]

\* what the operating system does with open(filepath, "w") and the write
\* ("WriteError" is an OSError raised while writing, after open() truncated the file)
OsOutcomes ==
    {"ok", "FileNotFoundError", "PermissionError", "IsADirectoryError", "OSError", "WriteError"}

\* a message is the format string followed by its arguments, <<>> is ""
NoResult == [failed |-> FALSE, msg |-> <<"none yet">>]

\* the vehicle directory and os.path.join(vehicle_dir, vehicle_components_json_filename)
VehicleDir == "vehicle_dir"
Filepath == "vehicle_dir/vehicle_components.json"

\* values json cannot write: an object of a class json does not know (a set,
\* say), and a container that holds itself
JObject == [k |-> <<>>, t |-> "object", v |-> 0]
JCycle == [k |-> <<>>, t |-> "cycle", v |-> 0]

\* characters str.lstrip() removes (of the characters used here)
Whitespace == {" ", "\n"}
\* characters the pattern \d matches (of the characters used here)
Digits == {"4"}

\* version_str.lstrip()
RECURSIVE LStrip(_)
LStrip(s) ==
    IF s # <<>> /\ Head(s) \in Whitespace THEN LStrip(Tail(s)) ELSE s

\* s.split(" ")[0]
RECURSIVE SplitFirst(_)
SplitFirst(s) ==
    IF s = <<>> \/ Head(s) = " " THEN <<>> ELSE <<Head(s)>> \o SplitFirst(Tail(s))

\* what is left of s after its leading run of digits
RECURSIVE DropDigits(_)
DropDigits(s) ==
    IF s # <<>> /\ Head(s) \in Digits THEN DropDigits(Tail(s)) ELSE s

\* what is left of s after a match of \d+ , or "fail"
AfterNumber(s) ==
    IF s = "fail" THEN "fail"
    ELSE IF s # <<>> /\ Head(s) \in Digits THEN DropDigits(s) ELSE "fail"

\* what is left of s after a match of \. , or "fail"
AfterDot(s) ==
    IF s = "fail" THEN "fail"
    ELSE IF s # <<>> /\ Head(s) = "." THEN Tail(s) ELSE "fail"

\* the pattern without its end anchor: any text may follow the triple
VersionPatternMatches_NoEndAnchor(s) ==
    AfterNumber(AfterDot(AfterNumber(AfterDot(AfterNumber(s))))) # "fail"

\* re_match(r"^\d+\.\d+\.\d+$", s): $ matches at the end of the string and
\* also just before a newline that ends the string
VersionPatternMatches(s) ==
    LET rest == AfterNumber(AfterDot(AfterNumber(AfterDot(AfterNumber(s)))))
    IN rest # "fail" /\ (rest = <<>> \/ rest = <<"\n">>)

\* get_fc_fw_version_from_vehicle_components_json()
get_fc_fw_version_from_vehicle_components_json(vc) ==
    LET components == IF Truthy(vc) /\ Has(vc, "Components") THEN vc.v["Components"] ELSE JNone
    IN IF ~Truthy(components) THEN <<>>
       ELSE LET fc == IF Has(components, "Flight Controller")
                      THEN components.v["Flight Controller"] ELSE EmptyDict
                fw == IF Has(fc, "Firmware") THEN fc.v["Firmware"] ELSE EmptyDict
                version_str == IF Has(fw, "Version") THEN fw.v["Version"].v ELSE <<>>
                token == IF version_str # <<>> THEN SplitFirst(LStrip(version_str)) ELSE <<>>
            IN IF VersionPatternMatches(token) THEN token ELSE <<>>

\* a supported_vehicles() that lacks "Heli"
supported_vehicles_NoHeli ==
    <<<<"A", "P", "_", "P", "e", "r", "i", "p", "h">>,
      <<"A", "n", "t", "e", "n", "n", "a", "T", "r", "a", "c", "k", "e", "r">>,
      <<"A", "r", "d", "u", "C", "o", "p", "t", "e", "r">>,
      <<"A", "r", "d", "u", "P", "l", "a", "n", "e">>,
      <<"A", "r", "d", "u", "S", "u", "b">>,
      <<"B", "l", "i", "m", "p">>,
      <<"R", "o", "v", "e", "r">>,
      <<"S", "I", "T", "L">>>>

\* supported_vehicles()
supported_vehicles ==
    <<<<"A", "P", "_", "P", "e", "r", "i", "p", "h">>,
      <<"A", "n", "t", "e", "n", "n", "a", "T", "r", "a", "c", "k", "e", "r">>,
      <<"A", "r", "d", "u", "C", "o", "p", "t", "e", "r">>,
      <<"A", "r", "d", "u", "P", "l", "a", "n", "e">>,
      <<"A", "r", "d", "u", "S", "u", "b">>,
      <<"B", "l", "i", "m", "p">>,
      <<"H", "e", "l", "i">>,
      <<"R", "o", "v", "e", "r">>,
      <<"S", "I", "T", "L">>>>

\* get_fc_fw_type_from_vehicle_components_json(); `in` compares the stored
\* value, of whatever type, with each supported name
get_fc_fw_type_from_vehicle_components_json(vc) ==
    LET components == IF Truthy(vc) /\ Has(vc, "Components") THEN vc.v["Components"] ELSE JNone
    IN IF ~Truthy(components) THEN <<>>
       ELSE LET fc == IF Has(components, "Flight Controller")
                      THEN components.v["Flight Controller"] ELSE EmptyDict
                fw == IF Has(fc, "Firmware") THEN fc.v["Firmware"] ELSE EmptyDict
                fw_type_value == IF Has(fw, "Type") THEN fw.v["Type"] ELSE JStr(<<>>)
            IN IF \E i \in 1..Len(supported_vehicles) : fw_type_value = JStr(supported_vehicles[i])
               THEN fw_type_value.v ELSE <<>>

\* isinstance tests that take a float for an int
IsInstanceInt_IsFloat(x) == x.t = "float"
IsInstanceInt_AnyNumber(x) == x.t \in {"int", "bool", "float"}

\* _recursively_clear_dict(data): isinstance(value, (int, float)) is also
\* true of a bool, which Python makes a subclass of int
IsInstanceInt(x) == x.t \in {"int", "bool"}
IsInstanceFloat(x) == x.t = "float"

RECURSIVE recursively_clear_dict(_)
recursively_clear_dict(data) ==
    IF ~IsDict(data) THEN data
    ELSE [k |-> data.k,
          t |-> "dict",
          v |-> [key \in DOMAIN data.v |->
                   LET value == data.v[key] IN
                   IF IsDict(value) THEN recursively_clear_dict(value)
                   ELSE IF value.t = "list" THEN JList(<<>>)
                   ELSE IF IsInstanceInt(value) \/ IsInstanceFloat(value)
                        THEN (IF IsInstanceInt(value) THEN JInt(0) ELSE JFloat(0))
                   ELSE IF value.t = "bool" THEN JBool(FALSE)
                   ELSE IF value.t = "str" THEN JStr(<<>>) ELSE JNone]]

\* a wipe that drops the content of the document
wipe_component_info_Empties(components) ==
    IF components # JNone THEN EmptyDict ELSE components

\* wipe_component_info()
wipe_component_info(components) ==
    IF components # JNone THEN recursively_clear_dict(components) ELSE components

----------------------------------------------------------------------------
(* frontend_tkinter_component_editor_base.py : text of the entry widgets *)

DigitChars == <<"0", "1", "2", "3", "4", "5", "6", "7", "8", "9">>
IsDigitChar(c) == \E i \in 1..10 : DigitChars[i] = c
DigitValue(c) == (CHOOSE i \in 1..10 : DigitChars[i] = c) - 1

\* decimal digits of a natural number
RECURSIVE NatToChars(_)
NatToChars(n) ==
    IF n < 10 THEN <<DigitChars[n + 1]>>
    ELSE NatToChars(n \div 10) \o <<DigitChars[(n % 10) + 1]>>

\* value of a non-empty sequence of digit characters
RECURSIVE CharsToNat(_)
CharsToNat(s) ==
    IF Len(s) = 1 THEN DigitValue(s[1])
    ELSE 10 * CharsToNat(SubSeq(s, 1, Len(s) - 1)) + DigitValue(s[Len(s)])

AllDigits(s) == \A i \in 1..Len(s) : IsDigitChar(s[i])

\* str(value), the text add_entry_or_combobox and apply_component_template
\* insert into an entry.  The text of a container is cut down to its
\* brackets: what matters of it is that it parses as no number.
StrOf(x) ==
    CASE x.t = "str" -> x.v
      [] x.t = "int" -> IF x.v < 0 THEN <<"-">> \o NatToChars(-x.v) ELSE NatToChars(x.v)
      [] x.t = "float" ->
            LET a == IF x.v < 0 THEN -x.v ELSE x.v
            IN (IF x.v < 0 THEN <<"-">> ELSE <<>>)
               \o NatToChars(a \div 10) \o <<".">> \o NatToChars(a % 10)
      [] x.t = "bool" -> IF x.v THEN <<"T", "r", "u", "e">> ELSE <<"F", "a", "l", "s", "e">>
      [] x.t = "null" -> <<"N", "o", "n", "e">>
      [] x.t = "list" -> IF x.v = <<>> THEN <<"[", "]">> ELSE <<"[", ",", "]">>
      [] OTHER -> IF DOMAIN x.v = {} THEN <<"{", "}">> ELSE <<"{", ":", "}">>

\* s.rstrip() and s.strip()
RECURSIVE RStrip(_)
RStrip(s) ==
    IF s # <<>> /\ s[Len(s)] \in Whitespace THEN RStrip(SubSeq(s, 1, Len(s) - 1)) ELSE s
Strip(s) == RStrip(LStrip(s))

\* s without a leading sign, and the sign
Unsigned(s) == IF s # <<>> /\ s[1] \in {"+", "-"} THEN Tail(s) ELSE s
SignOf(s) == IF s # <<>> /\ s[1] = "-" THEN -1 ELSE 1

\* int(text): surrounding whitespace and a sign are accepted; ok is FALSE
\* where Python raises ValueError
IntParse(s) ==
    LET body == Unsigned(Strip(s))
    IN IF body # <<>> /\ AllDigits(body)
       THEN [ok |-> TRUE, v |-> SignOf(Strip(s)) * CharsToNat(body)]
       ELSE [ok |-> FALSE, v |-> 0]

\* float(text) for plain decimal text (digits, at most one point, at least
\* one digit), in tenths; fraction digits after the first are dropped, no
\* text of the model has them.  Exponent, inf and nan forms are not among
\* the texts of the model.
FloatParse(s) ==
    LET body == Unsigned(Strip(s))
        dots == {i \in 1..Len(body) : body[i] = "."}
        dot == IF dots = {} THEN Len(body) + 1 ELSE CHOOSE i \in dots : TRUE
        whole == SubSeq(body, 1, dot - 1)
        frac == SubSeq(body, dot + 1, Len(body))
    IN IF /\ Cardinality(dots) <= 1
          /\ AllDigits(whole) /\ AllDigits(frac)
          /\ Len(whole) + Len(frac) >= 1
       THEN [ok |-> TRUE,
             v |-> SignOf(Strip(s)) * (10 * (IF whole = <<>> THEN 0 ELSE CharsToNat(whole))
                                       + (IF frac = <<>> THEN 0 ELSE DigitValue(frac[1])))]
       ELSE [ok |-> FALSE, v |-> 0]

\* lines 356-363: the value save_component_json stores for an entry text
ConvertEntry(key, text) ==
    IF key = "Version" THEN JStr(text)
    ELSE IF IntParse(text).ok THEN JInt(IntParse(text).v)
    ELSE IF FloatParse(text).ok THEN JFloat(FloatParse(text).v)
    ELSE JStr(Strip(text))

\* populate_frames / __add_widget: the paths of the entry widgets, in the
\* order the widgets are created (depth first, keys in document order)
RECURSIVE WidgetPathsOver(_, _, _)
WidgetPaths(value, path) ==
    IF IsDict(value) THEN WidgetPathsOver(value, value.k, path) ELSE <<path>>
WidgetPathsOver(d, keys, path) ==
    IF keys = <<>> THEN <<>>
    ELSE WidgetPaths(d.v[Head(keys)], path \o <<Head(keys)>>)
         \o WidgetPathsOver(d, Tail(keys), path)

\* the exception raised by node[k1][k2]... for the keys of path, "none" if
\* every step resolves: a missing key of a mapping is a KeyError, indexing
\* anything else with a key is a TypeError
RECURSIVE NavError(_, _)
NavError(node, path) ==
    IF path = <<>> THEN "none"
    ELSE IF ~IsDict(node) THEN "TypeError"
    ELSE IF ~Has(node, Head(path)) THEN "KeyError"
    ELSE NavError(node.v[Head(path)], Tail(path))

----------------------------------------------------------------------------
(* backend_filesystem_vehicle_components.py : the JSON text of the file *)

\* The text is kept as its sequence of tokens: white space and the
\* indentation of indent=4 carry nothing.  A key is a token of its own kind
\* because the keys of the model are not split into characters.
Tok(kind, s) == [kind |-> kind, s |-> s]
Punct(c) == Tok(c, <<>>)

JsonText(toks) == [k |-> <<>>, t |-> "text", v |-> toks]

\* json_dump(data, file, indent=4): the tokens written, in the order
\* written, and the exception that stopped the writing ("none" if the
\* whole value was written).  A number is written with int.__repr__ or
\* float.__repr__, a mapping in its insertion order.
RECURSIVE json_dump(_), DumpMembers(_, _, _), DumpItems(_, _)
Written(out, toks) == [toks |-> out.toks \o toks, err |-> out.err]
Stopped(out, e) == [toks |-> out.toks, err |-> e]
NothingWritten == [toks |-> <<>>, err |-> "none"]
DumpMembers(d, keys, out) ==
    LET Value(first) ==
            IF first.err # "none" \/ Tail(keys) = <<>>
            THEN Written(Stopped(out, first.err), <<Tok("key", <<Head(keys)>>), Punct(":")>> \o first.toks)
            ELSE DumpMembers(d, Tail(keys),
                             Written(out, <<Tok("key", <<Head(keys)>>), Punct(":")>>
                                          \o first.toks \o <<Punct(",")>>))
    IN IF keys = <<>> THEN out ELSE Value(json_dump(d.v[Head(keys)]))
DumpItems(items, out) ==
    LET Value(first) ==
            IF first.err # "none" \/ Tail(items) = <<>>
            THEN Written(Stopped(out, first.err), first.toks)
            ELSE DumpItems(Tail(items), Written(out, first.toks \o <<Punct(",")>>))
    IN IF items = <<>> THEN out ELSE Value(json_dump(Head(items)))
json_dump(x) ==
    LET Closed(m, bracket) == IF m.err = "none" THEN Written(m, <<Punct(bracket)>>) ELSE m
    IN CASE x.t = "dict" -> Closed(DumpMembers(x, x.k, Written(NothingWritten, <<Punct("{")>>)), "}")
         [] x.t = "list" -> Closed(DumpItems(x.v, Written(NothingWritten, <<Punct("[")>>)), "]")
         [] x.t = "str" -> Written(NothingWritten, <<Tok("string", x.v)>>)
         [] x.t \in {"int", "float"} -> Written(NothingWritten, <<Tok("number", StrOf(x))>>)
         [] x.t = "bool" -> Written(NothingWritten, <<Punct(IF x.v THEN "true" ELSE "false")>>)
         [] x.t = "null" -> Written(NothingWritten, <<Punct("null")>>)
         [] x.t = "cycle" -> Stopped(NothingWritten, "ValueError")
         [] OTHER -> Stopped(NothingWritten, "TypeError")

\* the file a completed json_dump(doc) leaves
WrittenFile(doc) == JsonText(json_dump(doc).toks)

\* a parser that reads every number as a float
ParseNumber_AlwaysFloat(s) == JFloat(FloatParse(s).v)

\* the number a JSON number text stands for: a float if it has a fraction
ParseNumber(s) ==
    IF \E i \in 1..Len(s) : s[i] = "." THEN JFloat(FloatParse(s).v) ELSE JInt(IntParse(s).v)

\* The JSON parser: the value the tokens start with and the tokens after
\* it; ok is FALSE where the text is no JSON.  A key met twice keeps its
\* first place and its last value, as a Python dict does.
RECURSIVE ParseValue(_), ParseMembers(_, _), ParseItems(_, _)
NoParse == [ok |-> FALSE, val |-> JNone, rest |-> <<>>]
Parsed(x, rest) == [ok |-> TRUE, val |-> x, rest |-> rest]
ParseMembers(toks, acc) ==
    LET Value(r) ==
            IF ~r.ok \/ r.rest = <<>> THEN NoParse
            ELSE IF Head(r.rest).kind = "}" THEN Parsed(Put(acc, toks[1].s[1], r.val), Tail(r.rest))
            ELSE IF Head(r.rest).kind = "," THEN ParseMembers(Tail(r.rest), Put(acc, toks[1].s[1], r.val))
            ELSE NoParse
    IN IF Len(toks) < 3 \/ toks[1].kind # "key" \/ toks[2].kind # ":" THEN NoParse
       ELSE Value(ParseValue(SubSeq(toks, 3, Len(toks))))
ParseItems(toks, acc) ==
    LET Value(r) ==
            IF ~r.ok \/ r.rest = <<>> THEN NoParse
            ELSE IF Head(r.rest).kind = "]" THEN Parsed(JList(Append(acc, r.val)), Tail(r.rest))
            ELSE IF Head(r.rest).kind = "," THEN ParseItems(Tail(r.rest), Append(acc, r.val))
            ELSE NoParse
    IN Value(ParseValue(toks))
ParseValue(toks) ==
    IF toks = <<>> THEN NoParse
    ELSE CASE Head(toks).kind = "{" ->
                IF Len(toks) >= 2 /\ toks[2].kind = "}"
                THEN Parsed(EmptyDict, SubSeq(toks, 3, Len(toks)))
                ELSE ParseMembers(Tail(toks), EmptyDict)
           [] Head(toks).kind = "[" ->
                IF Len(toks) >= 2 /\ toks[2].kind = "]"
                THEN Parsed(JList(<<>>), SubSeq(toks, 3, Len(toks)))
                ELSE ParseItems(Tail(toks), <<>>)
           [] Head(toks).kind = "string" -> Parsed(JStr(Head(toks).s), Tail(toks))
           [] Head(toks).kind = "number" -> Parsed(ParseNumber(Head(toks).s), Tail(toks))
           [] Head(toks).kind = "true" -> Parsed(JBool(TRUE), Tail(toks))
           [] Head(toks).kind = "false" -> Parsed(JBool(FALSE), Tail(toks))
           [] Head(toks).kind = "null" -> Parsed(JNone, Tail(toks))
           [] OTHER -> NoParse

\* open(filepath) and json_load(file): the value read, or the exception
json_load(file) ==
    LET Whole(r) == IF r.ok /\ r.rest = <<>> THEN [err |-> "none", val |-> r.val]
                    ELSE [err |-> "JSONDecodeError", val |-> JNone]
    IN IF file = FileAbsent THEN [err |-> "FileNotFoundError", val |-> JNone]
       ELSE IF file.t # "text" THEN [err |-> "JSONDecodeError", val |-> JNone]
       ELSE Whole(ParseValue(file.v))

\* the OS outcomes of a save, with an exception that is neither an OSError
\* nor a TypeError or ValueError
SaveOutcomes == OsOutcomes \cup {"MemoryError"}

\* the OS outcomes with which open(filepath, "w") fails
OpenFailures == {"FileNotFoundError", "PermissionError", "IsADirectoryError", "OSError"}

\* lines 159-161: the exception open(filepath, "w") or json_dump raises
\* under the OS outcome os, "none" if the document was written.  open()
\* comes first; a value json cannot write stops json_dump where it is met.
SaveException(dumped, os) ==
    IF os \in OpenFailures THEN os
    ELSE IF dumped.err # "none" THEN dumped.err
    ELSE IF os = "WriteError" THEN "OSError"
    ELSE IF os = "ok" THEN "none"
    ELSE os

\* the file the call leaves: open() failing leaves it alone, json_dump
\* stopped by a value leaves the text written so far, an exception from the
\* writing itself leaves a cut text, which no longer parses
SavedFile(dumped, file, os) ==
    IF os \in OpenFailures THEN file
    ELSE IF dumped.err # "none" \/ os = "ok" THEN JsonText(dumped.toks)
    ELSE Malformed

\* the except clauses without the one for IsADirectoryError
SaveMessage_NoDirectoryClause(exc) ==
    CASE exc = "FileNotFoundError" -> <<"Directory '{}' not found", VehicleDir>>
      [] exc = "PermissionError" -> <<"Permission denied when writing to file '{}'", Filepath>>
      [] exc \in {"IsADirectoryError", "OSError"} ->
           <<"OS error when writing to file '{}': {}", Filepath, exc>>
      [] exc = "TypeError" -> <<"Type error when serializing data to JSON: {}", exc>>
      [] exc = "ValueError" -> <<"Value error when serializing data to JSON: {}", exc>>
      [] OTHER -> <<"Unexpected error saving data to file '{}': {}", Filepath, exc>>

\* lines 162-196: the except clauses in their order, each returning
\* (True, msg); the last one catches every Exception, so none is raised
SaveMessage(exc) ==
    CASE exc = "FileNotFoundError" -> <<"Directory '{}' not found", VehicleDir>>
      [] exc = "PermissionError" -> <<"Permission denied when writing to file '{}'", Filepath>>
      [] exc = "IsADirectoryError" -> <<"Path '{}' is a directory, not a file", Filepath>>
      [] exc = "OSError" -> <<"OS error when writing to file '{}': {}", Filepath, exc>>
      [] exc = "TypeError" -> <<"Type error when serializing data to JSON: {}", exc>>
      [] exc = "ValueError" -> <<"Value error when serializing data to JSON: {}", exc>>
      [] OTHER -> <<"Unexpected error saving data to file '{}': {}", Filepath, exc>>

\* save_vehicle_components_json_data(data, vehicle_dir) under OS outcome os:
\* the returned (failed, msg), the exception met (exc) and the one that
\* leaves the call (raised), and the file content left behind
save_vehicle_components_json_data(data, file, os) ==
    LET Handled(exc, left) ==
            [failed |-> exc # "none",
             msg |-> IF exc = "none" THEN <<>> ELSE SaveMessage(exc),
             exc |-> exc, raised |-> "none", file |-> left]
        Dumped(dumped) == Handled(SaveException(dumped, os), SavedFile(dumped, file, os))
    IN Dumped(json_dump(data))

----------------------------------------------------------------------------
(* backend_filesystem_vehicle_components.py : schema and validation *)

\* what load_schema() hands back: the schema returned, the cache after the
\* call, whether the file was opened, the exception that leaves the call
SchemaResult(ret, cache, read, raised) ==
    [ret |-> ret, schema |-> cache, read |-> read, raised |-> raised]

\* a load_schema() that never looks at the cache
load_schema_NoCache(cache, file) ==
    LET Read(r) == IF r.err = "none" THEN SchemaResult(r.val, r.val, TRUE, "none")
                   ELSE SchemaResult(EmptyDict, cache, TRUE, "none")
    IN Read(json_load(file))

\* load_schema(): the cached schema is returned without opening the file;
\* otherwise the file is opened and parsed, a parsed schema is stored and
\* returned, FileNotFoundError and JSONDecodeError are logged and {} is
\* returned
load_schema(cache, file) ==
    LET Read(r) ==
            IF r.err = "none" THEN SchemaResult(r.val, r.val, TRUE, "none")
            ELSE IF r.err \in {"FileNotFoundError", "JSONDecodeError"}
            THEN SchemaResult(EmptyDict, cache, TRUE, "none")
            ELSE SchemaResult(JNone, cache, TRUE, r.err)
    IN IF cache # JNone THEN SchemaResult(cache, cache, FALSE, "none") ELSE Read(json_load(file))

\* a JSON type name of a schema against a value (a bool is no number)
MatchesType(x, name) ==
    CASE name = "object" -> x.t = "dict"
      [] name = "array" -> x.t = "list"
      [] name = "string" -> x.t = "str"
      [] name = "number" -> x.t \in {"int", "float"}
      [] name = "boolean" -> x.t = "bool"
      [] name = "null" -> x.t = "null"
      [] OTHER -> FALSE

\* jsonschema.validate(instance, schema) for the keywords "type",
\* "required" and "properties": the message of the ValidationError raised,
\* <<>> where the instance satisfies the schema
RECURSIVE ValidationError(_, _), PropertyError(_, _, _)
PropertyError(instance, props, keys) ==
    LET First(e) == IF e # <<>> THEN e ELSE PropertyError(instance, props, Tail(keys))
    IN IF keys = <<>> THEN <<>>
       ELSE IF ~Has(instance, Head(keys)) THEN PropertyError(instance, props, Tail(keys))
       ELSE First(ValidationError(instance.v[Head(keys)], props.v[Head(keys)]))
ValidationError(instance, sch) ==
    LET required == IF Has(sch, "required") THEN sch.v["required"].v ELSE <<>>
        missing == {i \in 1..Len(required) : ~Has(instance, required[i].v[1])}
    IN IF Has(sch, "type") /\ ~MatchesType(instance, sch.v["type"].v[1])
       THEN <<"{} is not of type {}", sch.v["type"].v[1]>>
       ELSE IF ~IsDict(instance) THEN <<>>
       ELSE IF missing # {}
       THEN <<"{} is a required property", required[CHOOSE i \in missing : \A j \in missing : i <= j].v[1]>>
       ELSE IF Has(sch, "properties")
       THEN PropertyError(instance, sch.v["properties"], sch.v["properties"].k)
       ELSE <<>>

\* what validate_vehicle_components() hands back: (is_valid, error_message)
\* and the load_schema() result ls it went by
Validated(valid, msg, ls) ==
    [valid |-> valid, msg |-> msg, ret |-> ls.ret, raised |-> ls.raised,
     schema |-> ls.schema, read |-> ls.read]

\* a validation that does not look whether a schema was loaded
validate_vehicle_components_NoSchemaCheck(data, cache, file) ==
    LET Checked(e, ls) == IF e = <<>> THEN Validated(TRUE, <<>>, ls)
                          ELSE Validated(FALSE, <<"Validation error: {}">> \o e, ls)
        With(ls) == Checked(ValidationError(data, ls.ret), ls)
    IN With(load_schema(cache, file))

\* validate_vehicle_components(data)
validate_vehicle_components(data, cache, file) ==
    LET Checked(e, ls) == IF e = <<>> THEN Validated(TRUE, <<>>, ls)
                          ELSE Validated(FALSE, <<"Validation error: {}">> \o e, ls)
        With(ls) == IF ~Truthy(ls.ret)
                    THEN Validated(FALSE, <<"Could not load validation schema">>, ls)
                    ELSE Checked(ValidationError(data, ls.ret), ls)
    IN With(load_schema(cache, file))

\* what load_vehicle_components_json_data() hands back: the document
\* returned and stored, the exception caught, and the validation made
Loaded(data, err, v) ==
    [data |-> data, err |-> err, valid |-> v.valid, schema |-> v.schema, read |-> v.read]

\* a load that keeps only a document that passed validation
load_vehicle_components_json_data_DropsInvalid(file, cache, schema_file_content) ==
    LET Checked(r, v) == Loaded(IF v.valid THEN r.val ELSE EmptyDict, "none", v)
        Read(r) ==
            IF r.err = "none"
            THEN Checked(r, validate_vehicle_components(r.val, cache, schema_file_content))
            ELSE Loaded(EmptyDict, r.err, [valid |-> FALSE, schema |-> cache, read |-> FALSE])
    IN Read(json_load(file))

\* load_vehicle_components_json_data(vehicle_dir): a parsed document is
\* validated, which only logs; FileNotFoundError and JSONDecodeError leave
\* data = {}
load_vehicle_components_json_data(file, cache, schema_file_content) ==
    LET Read(r) ==
            IF r.err = "none"
            THEN Loaded(r.val, "none", validate_vehicle_components(r.val, cache, schema_file_content))
            ELSE Loaded(EmptyDict, r.err, [valid |-> FALSE, schema |-> cache, read |-> FALSE])
    IN Read(json_load(file))

----------------------------------------------------------------------------
(* Template store: vehicle_components_template.json *)

\* load_component_templates(): a missing or malformed file gives {}
load_component_templates(file) ==
    IF file \in {FileAbsent, Malformed} THEN EmptyDict ELSE file

\* the outcome before any save_component_templates call
NoSave == [called |-> FALSE, raised |-> "none", failed |-> FALSE, msg |-> ""]

\* save_component_templates(templates) under OS outcome os: only
\* FileNotFoundError is caught, every other exception leaves the function
save_component_templates(templates, file, os) ==
    CASE os = "ok" ->
           [called |-> TRUE, raised |-> "none", failed |-> FALSE, msg |-> "", file |-> templates]
      [] os = "FileNotFoundError" ->
           [called |-> TRUE, raised |-> "none", failed |-> TRUE,
            msg |-> "Failed to save templates to file '{}': File not found", file |-> file]
      [] os = "WriteError" ->
           [called |-> TRUE, raised |-> "OSError", failed |-> FALSE, msg |-> "", file |-> Malformed]
      [] OTHER ->
           [called |-> TRUE, raised |-> os, failed |-> FALSE, msg |-> "", file |-> file]

\* FirstNamed with the return of line 260 one level out: only the first
\* template is looked at
FirstNamed_OnlyFirst(tmpls, name) ==
    IF tmpls # <<>> /\ Has(tmpls[1], "name") /\ tmpls[1].v["name"] = JStr(name) THEN 1 ELSE 0

\* lines 253-254: index of the first template of the sequence whose name is
\* name, 0 if none
FirstNamed(tmpls, name) ==
    LET hits == {i \in 1..Len(tmpls) : Has(tmpls[i], "name") /\ tmpls[i].v["name"] = JStr(name)}
    IN IF hits = {} THEN 0 ELSE CHOOSE i \in hits : \A j \in hits : i <= j

\* lines 239-264 of save_component_as_template(component_name) with the name the user
\* enters (<<>> when the dialog is cancelled or left empty), the answer to
\* the overwrite question and the OS outcome of the write
SaveAsTemplateCore(data, file, component_name, template_name, confirm, os) ==
    LET comps == data.v["Components"]
        component_data == IF Has(comps, component_name) THEN comps.v[component_name] ELSE EmptyDict
        loaded == load_component_templates(file)
        templates == IF Has(loaded, component_name) THEN loaded
                     ELSE Put(loaded, component_name, JList(<<>>))
        tmpls == templates.v[component_name].v
        new_template == Dict2("name", JStr(template_name), "data", component_data)
        i == FirstNamed(tmpls, template_name)
        written == IF i > 0
                   THEN Put(templates, component_name, JList([tmpls EXCEPT ![i] = new_template]))
                   ELSE Put(templates, component_name, JList(Append(tmpls, new_template)))
        saved == save_component_templates(written, file, os)
    IN IF ~Truthy(component_data)
       THEN [data |-> data, file |-> file, save |-> NoSave, shown |-> "No data for component"]
       ELSE IF template_name = <<>>
       THEN [data |-> data, file |-> file, save |-> NoSave, shown |-> "none"]
       ELSE IF i > 0 /\ ~confirm
       THEN [data |-> data, file |-> file, save |-> NoSave, shown |-> "none"]
       ELSE [data |-> data, file |-> saved.file,
             save |-> [called |-> TRUE, raised |-> saved.raised, failed |-> saved.failed, msg |-> saved.msg],
             shown |-> IF saved.raised # "none" THEN "none"
                       ELSE IF i > 0 THEN "Template has been updated"
                       ELSE "Template has been saved"]

\* save_component_as_template that overwrites without asking
save_component_as_template_NoQuestion(data, file, component_name, template_name, confirm, os) ==
    SaveAsTemplateCore(data, file, component_name, template_name, TRUE, os)

save_component_as_template(data, file, component_name, template_name, confirm, os) ==
    SaveAsTemplateCore(data, file, component_name, template_name, confirm, os)

\* the texts shown after entry.delete and entry.insert put the texts new
\* into the entries: a disabled ttk.Entry ignores both
Inserted(old, new, disabled) ==
    [path \in DOMAIN old |-> IF path \in disabled THEN old[path] ELSE new[path]]

\* path[:-1]
Front(path) == SubSeq(path, 1, Len(path) - 1)

\* what _set_component_value_and_update_ui leaves: the document, the
\* entry texts, the disabled entries and the exception raised
ValueSet(data, widgets, disabled, err) ==
    [data |-> data, widgets |-> widgets, disabled |-> disabled, err |-> err]

\* lines 164-167: the entry of the path is looked up after the document
\* was assigned to, then filled and disabled
UpdateUi(stored, widgets, disabled, path, value) ==
    IF path \notin DOMAIN widgets THEN ValueSet(stored, widgets, disabled, "KeyError")
    ELSE ValueSet(stored, Inserted(widgets, [widgets EXCEPT ![path] = value], disabled),
                  disabled \cup {path}, "none")

\* a version that assigns under Components without descending the path
set_component_value_and_update_ui_NoDescent(data, widgets, disabled, path, value) ==
    IF ~Has(data, "Components") THEN ValueSet(data, widgets, disabled, "KeyError")
    ELSE IF path = <<>> THEN ValueSet(data, widgets, disabled, "IndexError")
    ELSE IF ~IsDict(data.v["Components"]) THEN ValueSet(data, widgets, disabled, "TypeError")
    ELSE UpdateUi(Assign(data, <<"Components", path[Len(path)]>>, JStr(value)),
                  widgets, disabled, path, value)

\* _set_component_value_and_update_ui(path, value): the descent through
\* path[:-1] raises KeyError at a missing key and TypeError at a node that
\* is no mapping, before anything is assigned
set_component_value_and_update_ui(data, widgets, disabled, path, value) ==
    IF ~Has(data, "Components") THEN ValueSet(data, widgets, disabled, "KeyError")
    ELSE IF NavError(data.v["Components"], Front(path)) # "none"
    THEN ValueSet(data, widgets, disabled, NavError(data.v["Components"], Front(path)))
    ELSE IF path = <<>> THEN ValueSet(data, widgets, disabled, "IndexError")
    ELSE IF ~IsDict(Resolve(data.v["Components"], Front(path)))
    THEN ValueSet(data, widgets, disabled, "TypeError")
    ELSE UpdateUi(Assign(data, <<"Components">> \o path, JStr(value)),
                  widgets, disabled, path, value)

\* apply_component_template that also moves the applied template to the
\* front of its category in the store file
apply_component_template_MovesToFront(data, widgets, file, component_name, template) ==
    IF ~Has(template, "data") THEN [data |-> data, widgets |-> widgets, file |-> file]
    ELSE LET template_data == template.v["data"]
             others == SelectSeq(file.v[component_name].v, LAMBDA t : t # template)
         IN [data |-> Assign(data, <<"Components", component_name>>, template_data),
             widgets |-> widgets,
             file |-> Put(file, component_name, JList(<<template>> \o others))]

\* apply_component_template that replaces the whole Components mapping
apply_component_template_ReplacesAll(data, widgets, file, component_name, template) ==
    IF ~Has(template, "data") THEN [data |-> data, widgets |-> widgets, file |-> file]
    ELSE [data |-> Put(data, "Components", Dict1(component_name, template.v["data"])),
          widgets |-> widgets, file |-> file]

\* apply_component_template(component_name, template)
apply_component_template(data, widgets, file, component_name, template) ==
    IF ~Has(template, "data") THEN [data |-> data, widgets |-> widgets, file |-> file]
    ELSE LET template_data == template.v["data"] IN
         [data |-> Assign(data, <<"Components", component_name>>, template_data),
          widgets |-> [path \in DOMAIN widgets |->
                         IF Len(path) >= 1 /\ path[1] = component_name
                            /\ NavError(template_data, Tail(path)) = "none"
                         THEN StrOf(Resolve(template_data, Tail(path)))
                         ELSE widgets[path]],
          file |-> file]

\* lines 349-366: the loop of save_component_json over the entries in order;
\* an exception ends it with the values written so far kept
RECURSIVE StoreEntries(_, _, _)
StoreEntries(data, widgets, order) ==
    IF order = <<>> THEN [data |-> data, err |-> "none"]
    ELSE LET path == Head(order)
             comps == data.v["Components"]
             parent == SubSeq(path, 1, Len(path) - 1)
             nav == NavError(comps, parent)
         IN IF nav # "none" THEN [data |-> data, err |-> nav]
            ELSE IF ~IsDict(Resolve(comps, parent)) THEN [data |-> data, err |-> "TypeError"]
            ELSE StoreEntries(
                    Put(data, "Components",
                        Assign(comps, path, ConvertEntry(path[Len(path)], widgets[path]))),
                    widgets, Tail(order))

\* save_component_json(): the entries are stored, the document is saved and
\* the window destroyed; an exception of the loop skips the save and leaves
\* the window open
save_component_json(data, widgets, order, file, os) ==
    LET stored == StoreEntries(data, widgets, order)
        saved == save_vehicle_components_json_data(stored.data, file, os)
    IN IF stored.err # "none"
       THEN [data |-> stored.data, err |-> stored.err, file |-> file,
             result |-> NoResult, open |-> TRUE]
       ELSE [data |-> stored.data, err |-> "none", file |-> saved.file,
             result |-> [failed |-> saved.failed, msg |-> saved.msg], open |-> FALSE]

----------------------------------------------------------------------------
(* Initial values of the parts of the state a run does not use *)

NoOp == [n |-> 0, op |-> "none", category |-> "", name |-> <<>>, confirm |-> FALSE, os |-> "ok",
         template |-> JNone, doc_before |-> JNone, store_before |-> FileAbsent,
         widgets_before |-> <<>>, err |-> "none", called |-> FALSE, path |-> <<>>,
         prev |-> "none", prev_category |-> "", prev_template |-> JNone]

MigrationIdle == mig_input = JNone /\ mig_err = "none" /\ mig_runs = 0
WipeIdle == wipe_input = JNone /\ wipe_runs = 0
FirmwareIdle == fw_version = <<>> /\ fw_queries = 0 /\ fw_type = <<>> /\ fw_query = "none"
NoCall == [n |-> 0, op |-> "none", data |-> JNone, os |-> "ok", exc |-> "none", ret |-> JNone,
           valid |-> FALSE, msg |-> <<>>, cache_before |-> JNone, reads_before |-> 0,
           file_before |-> FileAbsent, vc_before |-> JNone, saved |-> Absent]
SchemaIdle == schema = JNone /\ schema_file = FileAbsent /\ schema_reads = 0 /\ call = NoCall
EditorIdle ==
    /\ entry_widgets = <<>>
    /\ widget_order = <<>>
    /\ buttons = {}
    /\ templates_file = FileAbsent
    /\ tmpl_save = NoSave
    /\ editor_open = FALSE
    /\ disabled_entries = {}
    /\ last = NoOp

----------------------------------------------------------------------------
(* Migration run: process_template_directory *)

MaxRuns == 2


\* shapes of the Battery entry in older and current documents
BatteryShapes ==
    {Absent, LeafA, EmptyDict,
     Dict1("Specifications", EmptyDict),
     Dict1("Specifications", Dict1("Chemistry", LeafA)),
     Dict1("Specifications", Dict2("Chemistry", LeafA, "Capacity mAh", JInt(5)))}

FrameShapes ==
    {Absent, EmptyDict,
     Dict1("Specifications", Dict1("TOW min Kg", JInt(2))),
     Dict1("Specifications", Dict2("TOW min Kg", JInt(2), "TOW max Kg", JInt(3)))}

OldGNSSShapes == {Absent, Dict1("Product", LeafA)}
NewGNSSShapes == {Absent, Dict1("Product", LeafB)}

FCShapes ==
    {Absent, EmptyDict,
     Dict1("Firmware", LeafA),
     Dict3("Product", LeafA, "Firmware", LeafB, "Notes", LeafA),
     Put(Dict3("Product", LeafA, "Firmware", LeafB, "Notes", LeafA), "Extra", LeafB),
     Dict2("Product", LeafA, "Specifications", Dict1("MCU Series", LeafB))}

ComponentsShapes ==
    {PutOpt(PutOpt(PutOpt(PutOpt(PutOpt(EmptyDict,
        "Battery", b), "Frame", f), "GNSS receiver", go), "GNSS Receiver", gn),
        "Flight Controller", fc) :
        b \in BatteryShapes, f \in FrameShapes, go \in OldGNSSShapes,
        gn \in NewGNSSShapes, fc \in FCShapes}

\* the documents a template directory can hold before the migration
MigrationInputs ==
    {JNone, EmptyDict}
    \cup {PutOpt(PutOpt(Dict1("Format version", JInt(1)), "Program version", pv), "Components", c) :
            pv \in {Absent, LeafA}, c \in {Absent} \cup ComponentsShapes}

InitMigration ==
    /\ vehicle_components \in MigrationInputs
    /\ vehicle_file = (IF vehicle_components = JNone THEN FileAbsent ELSE WrittenFile(vehicle_components))
    /\ save_result = NoResult
    /\ MigrationIdle /\ WipeIdle /\ FirmwareIdle /\ EditorIdle /\ SchemaIdle

\* lines 116-117: migrate the loaded document and save it; an exception of
\* either call is caught by the handler (line 129) and skips the rest.  A
\* further run works on the document the run before left in memory.
ProcessTemplateDirectory ==
    /\ mig_runs < MaxRuns
    /\ LET r == update_vehicle_components(vehicle_components)
           doc == IF r.err = "none" THEN r.ret ELSE r.doc
       IN /\ mig_input' = vehicle_components
          /\ mig_err' = r.err
          /\ mig_runs' = mig_runs + 1
          /\ vehicle_components' = doc
          /\ IF r.err = "none"
             THEN \E os \in OsOutcomes :
                    LET s == save_vehicle_components_json_data(doc, vehicle_file, os)
                    IN /\ vehicle_file' = s.file
                       /\ save_result' = [failed |-> s.failed, msg |-> s.msg]
             ELSE UNCHANGED <<vehicle_file, save_result>>
    /\ UNCHANGED <<wipeVars, fwVars, editorVars, schemaVars>>

NextMigration == ProcessTemplateDirectory

SpecMigration == InitMigration /\ [][NextMigration]_vars

\* every key path of a, and every non-dict value of a, is found unchanged in b
RECURSIVE Preserved(_, _)
Preserved(a, b) ==
    IF IsDict(a)
    THEN IsDict(b) /\ \A key \in DOMAIN a.v : Has(b, key) /\ Preserved(a.v[key], b.v[key])
    ELSE a = b

\* document d has the key sequence path
RECURSIVE HasPath(_, _)
HasPath(d, path) ==
    \/ path = <<>>
    \/ IsDict(d) /\ Has(d, Head(path)) /\ HasPath(d.v[Head(path)], Tail(path))

\* d without the "Program version" stamp and the deprecated "GNSS receiver" key
WithoutStampAndDeprecated(d) ==
    LET d1 == IF Has(d, "Program version") THEN Del(d, "Program version") ELSE d
    IN IF Has(d1, "Components") /\ IsDict(d1.v["Components"])
          /\ Has(d1.v["Components"], "GNSS receiver")
       THEN Put(d1, "Components", Del(d1.v["Components"], "GNSS receiver"))
       ELSE d1

\* C2: the migration is idempotent: migrating the outcome of a migration run
\* ends the same way and leaves the document as that run left it
C2_MigrationIdempotent ==
    mig_runs >= 1 =>
        LET r == update_vehicle_components(vehicle_components)
        IN /\ r.err = mig_err
           /\ r.doc = vehicle_components
           /\ (r.err = "none" => r.ret = vehicle_components)

\* a second run has acted on a document that the first run migrated
C2_Witness ==
    /\ mig_runs = 2
    /\ mig_err = "none"
    /\ vehicle_components = mig_input
    /\ HasPath(vehicle_components, <<"Components", "Flight Controller", "Specifications", "MCU Series">>)

\* C3: every path of the input document, the deprecated "GNSS receiver" key
\* and the "Program version" stamp aside, is in the migrated document with
\* the same value
C3_MigrationPreservesFields ==
    (mig_runs = 1 /\ mig_err = "none" /\ Truthy(mig_input)) =>
        Preserved(WithoutStampAndDeprecated(mig_input), vehicle_components)

\* C6: for an arbitrary input document the migration completes without
\* raising and its result holds the required fields and the version stamp
C6_MigrationCompletesWithDefaults ==
    mig_runs = 1 =>
        /\ mig_err = "none"
        /\ HasPath(vehicle_components, <<"Components", "Battery", "Specifications", "Chemistry">>)
        /\ HasPath(vehicle_components, <<"Components", "Battery", "Specifications", "Capacity mAh">>)
        /\ HasPath(vehicle_components, <<"Components", "Frame", "Specifications", "TOW min Kg">>)
        /\ HasPath(vehicle_components, <<"Components", "Frame", "Specifications", "TOW max Kg">>)
        /\ HasPath(vehicle_components, <<"Components", "Flight Controller", "Specifications", "MCU Series">>)
        /\ HasPath(vehicle_components, <<"Program version">>)
        /\ vehicle_components.v["Program version"] = JStr(ProgramVersion)

\* the Components of the document handed to the last migration run; a
\* document without Components has none of its keys
InputComponents ==
    IF Has(mig_input, "Components") THEN mig_input.v["Components"] ELSE EmptyDict

\* C23: a migration of a non-empty document that has "GNSS receiver" under
\* Components returns a document without that key whose "GNSS Receiver" is
\* the former value of "GNSS receiver"; for a document without the key the
\* "GNSS Receiver" entry is as it was, absent if it was absent
C23_MigrationRenamesGNSS ==
    (mig_runs >= 1 /\ mig_err = "none" /\ Truthy(mig_input)) =>
        LET after == vehicle_components.v["Components"] IN
        IF Has(InputComponents, "GNSS receiver")
        THEN /\ ~Has(after, "GNSS receiver")
             /\ Has(after, "GNSS Receiver")
             /\ after.v["GNSS Receiver"] = InputComponents.v["GNSS receiver"]
        ELSE /\ Has(after, "GNSS Receiver") <=> Has(InputComponents, "GNSS Receiver")
             /\ Has(after, "GNSS Receiver") =>
                    after.v["GNSS Receiver"] = InputComponents.v["GNSS Receiver"]

\* a run has renamed the deprecated key of a document that also had the
\* current key with another value
C23_Witness ==
    /\ mig_runs = 1
    /\ mig_err = "none"
    /\ Truthy(mig_input)
    /\ Has(InputComponents, "GNSS receiver")
    /\ Has(InputComponents, "GNSS Receiver")
    /\ InputComponents.v["GNSS Receiver"] # InputComponents.v["GNSS receiver"]
    /\ vehicle_components.v["Components"].v["GNSS Receiver"] = InputComponents.v["GNSS receiver"]
    /\ ~Has(vehicle_components.v["Components"], "GNSS receiver")

----------------------------------------------------------------------------
(* Wipe: wipe_component_info on a loaded document *)

MaxWipes == 2

\* one leaf of every JSON type, zero and non-zero, empty and non-empty
WipeLeaves ==
    {JInt(5), JInt(0), JFloat(15), JFloat(0), JBool(TRUE), JBool(FALSE),
     JStr(<<"a">>), JStr(<<>>), JList(<<JInt(1)>>), JList(<<>>), JNone}

WipeInputs ==
    {JNone, EmptyDict}
    \cup {Dict2("Format version", l1,
                "Components", Dict1("Battery", Dict2("Kind", l2, "Specifications", Dict1("Cells", l3)))) :
            l1 \in {JInt(1)}, l2 \in WipeLeaves, l3 \in WipeLeaves}
    \cup {Dict1("Components", Dict2("Frame", EmptyDict, "Armed", l)) : l \in WipeLeaves}

InitWipe ==
    /\ vehicle_components \in WipeInputs
    /\ vehicle_file = (IF vehicle_components = JNone THEN FileAbsent ELSE WrittenFile(vehicle_components))
    /\ save_result = NoResult
    /\ MigrationIdle /\ WipeIdle /\ FirmwareIdle /\ EditorIdle /\ SchemaIdle

WipeComponentInfo ==
    /\ wipe_runs < MaxWipes
    /\ wipe_input' = vehicle_components
    /\ wipe_runs' = wipe_runs + 1
    /\ vehicle_components' = wipe_component_info(vehicle_components)
    /\ UNCHANGED <<vehicle_file, save_result, migVars, fwVars, editorVars, schemaVars>>

NextWipe == WipeComponentInfo

SpecWipe == InitWipe /\ [][NextWipe]_vars

\* the key paths of document d that end in a non-dict value
RECURSIVE LeafPaths(_)
LeafPaths(d) ==
    IF ~IsDict(d) THEN {<<>>}
    ELSE UNION {{<<key>> \o p : p \in LeafPaths(d.v[key])} : key \in DOMAIN d.v}

\* C1: every leaf that is a boolean before the wipe is the boolean false
\* after it, never the integer 0
C1_WipeKeepsBooleans ==
    (wipe_runs = 1 /\ wipe_input # JNone) =>
        \A p \in LeafPaths(wipe_input) :
            Resolve(wipe_input, p).t = "bool" =>
                HasPath(vehicle_components, p) /\ Resolve(vehicle_components, p) = JBool(FALSE)

\* C16: a second wipe changes nothing, neither a value nor a type.
C16_WipeIdempotent ==
    wipe_runs >= 2 => vehicle_components = wipe_input

C16_Witness ==
    /\ wipe_runs = 2
    /\ HasPath(vehicle_components, <<"Components", "Battery", "Specifications", "Cells">>)
    /\ Resolve(vehicle_components, <<"Components", "Battery", "Kind">>) = JFloat(0)
    /\ Resolve(vehicle_components, <<"Components", "Battery", "Specifications", "Cells">>) = JStr(<<>>)

\* a and b have the same keys in the same order at every level, and a
\* mapping where the other has one
RECURSIVE SameKeys(_, _)
SameKeys(a, b) ==
    IF IsDict(a)
    THEN /\ IsDict(b)
         /\ a.k = b.k
         /\ DOMAIN a.v = DOMAIN b.v
         /\ \A key \in DOMAIN a.v : SameKeys(a.v[key], b.v[key])
    ELSE ~IsDict(b)

\* C17: a wipe adds no key and removes none at any level and keeps the
\* nesting; with no document loaded it does nothing.
C17_WipeKeepsKeys ==
    wipe_runs >= 1 =>
        IF wipe_input = JNone THEN vehicle_components = JNone
        ELSE SameKeys(wipe_input, vehicle_components)

C17_Witness ==
    /\ wipe_runs = 1
    /\ HasPath(wipe_input, <<"Components", "Frame">>)
    /\ Resolve(wipe_input, <<"Components", "Armed">>) = JList(<<JInt(1)>>)
    /\ vehicle_components # wipe_input
    /\ vehicle_components.v["Components"].k = <<"Frame", "Armed">>

\* the default of a leaf's type: [] for a sequence, 0 for an int, 0.0 for a
\* float, "" for a string, null for anything else
DefaultOf(leaf) ==
    CASE leaf.t = "list" -> JList(<<>>)
      [] leaf.t = "int" -> JInt(0)
      [] leaf.t = "float" -> JFloat(0)
      [] leaf.t = "str" -> JStr(<<>>)
      [] OTHER -> JNone

\* C18: after a wipe every leaf that was no boolean holds the default of
\* the type it had; mappings are kept and their leaves wiped.
C18_WipeSetsTypeDefaults ==
    (wipe_runs >= 1 /\ wipe_input # JNone) =>
        \A p \in LeafPaths(wipe_input) :
            Resolve(wipe_input, p).t # "bool" =>
                /\ HasPath(vehicle_components, p)
                /\ Resolve(vehicle_components, p) = DefaultOf(Resolve(wipe_input, p))

C18_Witness ==
    /\ wipe_runs = 1
    /\ HasPath(wipe_input, <<"Components", "Battery", "Specifications", "Cells">>)
    /\ Resolve(wipe_input, <<"Components", "Battery", "Kind">>) = JFloat(15)
    /\ Resolve(wipe_input, <<"Components", "Battery", "Specifications", "Cells">>) = JNone
    /\ Resolve(vehicle_components, <<"Components", "Battery", "Kind">>) = JFloat(0)
    /\ Resolve(vehicle_components, <<"Components", "Battery", "Specifications", "Cells">>) = JNone

----------------------------------------------------------------------------
(* Firmware queries on a loaded document *)

MaxVersionLen == 6
MaxQueries == 1

VersionChars == {"4", ".", "-", " ", "\n"}

VersionStrings == UNION {[1..n -> VersionChars] : n \in 0..MaxVersionLen}

DocWithFirmware(fw) ==
    Dict2("Format version", JInt(1),
          "Components", Dict1("Flight Controller", Dict2("Product", LeafA, "Firmware", fw)))

FirmwareInputs ==
    {JNone, EmptyDict, Dict1("Format version", JInt(1)),
     Dict1("Components", EmptyDict),
     Dict1("Components", Dict1("Battery", EmptyDict)),
     Dict1("Components", Dict1("Flight Controller", Dict1("Product", LeafA))),
     DocWithFirmware(EmptyDict)}
    \cup {DocWithFirmware(Dict1("Version", JStr(ver))) : ver \in VersionStrings}

InitFirmware ==
    /\ vehicle_components \in FirmwareInputs
    /\ vehicle_file = (IF vehicle_components = JNone THEN FileAbsent ELSE WrittenFile(vehicle_components))
    /\ save_result = NoResult
    /\ MigrationIdle /\ WipeIdle /\ FirmwareIdle /\ EditorIdle /\ SchemaIdle

GetFcFwVersion ==
    /\ fw_queries < MaxQueries
    /\ fw_version' = get_fc_fw_version_from_vehicle_components_json(vehicle_components)
    /\ fw_queries' = fw_queries + 1
    /\ fw_query' = "version"
    /\ UNCHANGED <<fw_type, repoVars, migVars, wipeVars, editorVars, schemaVars>>

NextFirmware == GetFcFwVersion

SpecFirmware == InitFirmware /\ [][NextFirmware]_vars

\* s is digits "." digits "." digits, each run of digits non-empty
IsTriple(s) ==
    \E i, j \in 1..Len(s) :
        /\ 1 < i /\ i + 1 < j /\ j < Len(s)
        /\ \A q \in 1..Len(s) : IF q \in {i, j} THEN s[q] = "." ELSE s[q] \in Digits

\* the stored Version string, when the document has one
HasVersion ==
    HasPath(vehicle_components, <<"Components", "Flight Controller", "Firmware", "Version">>)
StoredVersion == vehicle_components.v["Components"].v["Flight Controller"].v["Firmware"].v["Version"].v

\* the first space-delimited token of ver once leading whitespace is dropped
FirstToken(ver) ==
    CHOOSE tok \in {SubSeq(ver, a, b) : a \in 1..(Len(ver) + 1), b \in 0..Len(ver)} :
        \E a \in 1..(Len(ver) + 1), b \in 0..Len(ver) :
            /\ b >= a - 1
            /\ tok = SubSeq(ver, a, b)
            /\ \A q \in 1..(a - 1) : ver[q] \in Whitespace
            /\ (a <= Len(ver) => ver[a] \notin Whitespace)
            /\ \A q \in a..b : ver[q] # " "
            /\ (b < Len(ver) => ver[b + 1] = " ")
            /\ (a > Len(ver) => b = a - 1)

\* C4 (as amended): the query returns the first space-delimited token of the
\* left-stripped Version string when that whole token is a major.minor.patch
\* triple, optionally ended by one newline, and the empty string otherwise
C4_VersionIsFirstTokenIfTriple ==
    (fw_queries = 1 /\ HasVersion) =>
        LET tok == FirstToken(StoredVersion)
            core == IF tok # <<>> /\ tok[Len(tok)] = "\n" THEN SubSeq(tok, 1, Len(tok) - 1) ELSE tok
        IN fw_version = (IF IsTriple(core) THEN tok ELSE <<>>)

\* text after a space was discarded and the triple returned
C4_Witness ==
    /\ fw_queries = 1
    /\ HasVersion
    /\ StoredVersion = <<"4", ".", "4", ".", "4", " ">>
    /\ fw_version = <<"4", ".", "4", ".", "4">>

\* C4 (original): a stored version that starts with a major.minor.patch
\* triple yields that triple whatever text follows it
C4_VersionIsLeadingTriple ==
    (fw_queries = 1 /\ HasVersion) =>
        \A n \in 1..Len(StoredVersion) :
            (/\ IsTriple(SubSeq(StoredVersion, 1, n))
             /\ (n < Len(StoredVersion) => StoredVersion[n + 1] \notin Digits))
            => fw_version = SubSeq(StoredVersion, 1, n)

----------------------------------------------------------------------------
(* Firmware type query on a loaded document *)

\* the names of the fixed supported firmware set
SupportedFirmwareSet ==
    {<<"A", "P", "_", "P", "e", "r", "i", "p", "h">>,
     <<"A", "n", "t", "e", "n", "n", "a", "T", "r", "a", "c", "k", "e", "r">>,
     <<"A", "r", "d", "u", "C", "o", "p", "t", "e", "r">>,
     <<"A", "r", "d", "u", "P", "l", "a", "n", "e">>,
     <<"A", "r", "d", "u", "S", "u", "b">>,
     <<"B", "l", "i", "m", "p">>,
     <<"H", "e", "l", "i">>,
     <<"R", "o", "v", "e", "r">>,
     <<"S", "I", "T", "L">>}

\* values of Firmware.Type that are no supported name: an unknown name, a
\* name in another case, with a trailing space, cut short, empty, and
\* values that are no string
OtherTypes ==
    {JStr(<<"U", "n", "k", "n", "o", "w", "n", "V", "e", "h", "i", "c", "l", "e">>),
     JStr(<<"a", "r", "d", "u", "p", "l", "a", "n", "e">>),
     JStr(<<"A", "r", "d", "u", "P", "l", "a", "n", "e", " ">>),
     JStr(<<"A", "r", "d", "u">>),
     JStr(<<>>),
     JInt(4), JList(<<>>), JNone}

FirmwareTypes == {JStr(name) : name \in SupportedFirmwareSet} \cup OtherTypes

FirmwareTypeInputs ==
    {JNone, EmptyDict, Dict1("Format version", JInt(1)),
     Dict1("Components", EmptyDict),
     Dict1("Components", Dict1("Battery", EmptyDict)),
     Dict1("Components", Dict1("Flight Controller", Dict1("Product", LeafA)))}
    \cup {DocWithFirmware(PutOpt(PutOpt(EmptyDict, "Version", ver), "Type", type)) :
            ver \in {Absent, JStr(<<"4", ".", "4", ".", "4">>), JStr(<<"4">>)},
            type \in {Absent} \cup FirmwareTypes}

InitFirmwareType ==
    /\ vehicle_components \in FirmwareTypeInputs
    /\ vehicle_file = (IF vehicle_components = JNone THEN FileAbsent ELSE WrittenFile(vehicle_components))
    /\ save_result = NoResult
    /\ MigrationIdle /\ WipeIdle /\ FirmwareIdle /\ EditorIdle /\ SchemaIdle

GetFcFwType ==
    /\ fw_queries < MaxQueries
    /\ fw_type' = get_fc_fw_type_from_vehicle_components_json(vehicle_components)
    /\ fw_queries' = fw_queries + 1
    /\ fw_query' = "type"
    /\ UNCHANGED <<fw_version, repoVars, migVars, wipeVars, editorVars, schemaVars>>

NextFirmwareType == GetFcFwType \/ GetFcFwVersion

SpecFirmwareType == InitFirmwareType /\ [][NextFirmwareType]_vars

HasType == HasPath(vehicle_components, <<"Components", "Flight Controller", "Firmware", "Type">>)

StoredType == vehicle_components.v["Components"].v["Flight Controller"].v["Firmware"].v["Type"]

\* C19: the type query returns the stored Firmware.Type when that is one
\* of the supported names, and "" in every other case: no document, no
\* Components, no Type field, a value that is no supported name.
C19_TypeIsSupportedOrEmpty ==
    fw_query = "type" =>
        IF HasType /\ StoredType.t = "str" /\ StoredType.v \in SupportedFirmwareSet
        THEN fw_type = StoredType.v
        ELSE fw_type = <<>>

C19_Witness ==
    /\ fw_query = "type"
    /\ HasType
    /\ fw_type = <<"H", "e", "l", "i">>

----------------------------------------------------------------------------
(* Component editor session: ComponentEditorWindowBase *)

MaxOps == 3

NameX == <<"x">>
NameY == <<"y">>
NameZ == <<"z">>

\* subtrees stored as template data
DataA == Dict2("Chemistry", LeafB, "Cells", JInt(6))
DataB == Dict1("Chemistry", LeafB)
DataC == Dict1("Chemistry", Dict1("Kind", LeafA))
DataD == Dict1("Armed", JBool(FALSE))

Template(name, data) == Dict2("name", JStr(name), "data", data)

\* the documents the editor is opened on (a loaded, non-empty document)
EditorDocs ==
    {Dict2("Format version", JInt(1),
           "Components", Dict2("Battery", Dict2("Chemistry", LeafA, "Cells", JInt(4)),
                               "Frame", Dict1("Specifications", Dict1("TOW", JFloat(15))))),
     Dict2("Format version", JInt(1),
           "Components", Dict3("Battery", EmptyDict,
                               "Frame", Dict1("Armed", JBool(TRUE)),
                               "Notes", LeafA)),
     Dict1("Format version", JInt(1))}

\* the contents of the template store file when the editor is opened
InitialStores ==
    {FileAbsent, Malformed, EmptyDict,
     Dict1("Battery", JList(<<Template(NameX, DataA)>>)),
     Dict2("Battery", JList(<<Template(NameX, DataC), Template(NameY, DataB)>>),
           "Frame", JList(<<Dict1("name", JStr(NameX)), Template(NameY, DataD)>>))}

\* the names entered in the "Save Template" dialog; <<>> is a cancelled or
\* empty dialog
TemplateNames == {<<>>, NameX, NameZ}

\* the texts typed into an entry
EditTexts == {<<"7">>, <<"b", " ">>}

ComponentsOf(doc) == IF Has(doc, "Components") THEN doc.v["Components"] ELSE EmptyDict

\* __init__ (lines 79-116) and populate_frames: the document is loaded, gets
\* a "Format version" and one entry per leaf under Components holding
\* str(leaf); a component that is a mapping gets template controls
InitEditor ==
    /\ \E doc \in EditorDocs :
        /\ vehicle_file = WrittenFile(doc)
        /\ vehicle_components = (IF Has(doc, "Format version") THEN doc
                                 ELSE Put(doc, "Format version", JInt(1)))
    /\ save_result = NoResult
    /\ widget_order = WidgetPaths(ComponentsOf(vehicle_components), <<>>)
    /\ entry_widgets = [path \in {widget_order[i] : i \in 1..Len(widget_order)} |->
                           StrOf(Resolve(ComponentsOf(vehicle_components), path))]
    /\ buttons = {key \in DOMAIN ComponentsOf(vehicle_components).v :
                     IsDict(ComponentsOf(vehicle_components).v[key])}
    /\ templates_file \in InitialStores
    /\ tmpl_save = NoSave
    /\ editor_open = TRUE
    /\ disabled_entries = {}
    /\ last = NoOp
    /\ MigrationIdle /\ WipeIdle /\ FirmwareIdle /\ SchemaIdle

Op(op, category, name, confirm, os, template, err) ==
    [n |-> last.n + 1, op |-> op, category |-> category, name |-> name, confirm |-> confirm,
     os |-> os, template |-> template, doc_before |-> vehicle_components,
     store_before |-> templates_file, widgets_before |-> entry_widgets, err |-> err,
     called |-> FALSE, path |-> <<>>,
     prev |-> last.op, prev_category |-> last.category, prev_template |-> last.template]

CanAct == editor_open /\ last.n < MaxOps

\* the user types a text into an entry
EditEntry ==
    /\ CanAct
    /\ \E path \in (DOMAIN entry_widgets) \ disabled_entries, text \in EditTexts :
        /\ entry_widgets' = [entry_widgets EXCEPT ![path] = text]
        /\ last' = Op("edit", "", <<>>, FALSE, "ok", JNone, "none")
    /\ UNCHANGED <<repoVars, widget_order, buttons, templates_file, tmpl_save, editor_open,
                   disabled_entries, migVars, wipeVars, fwVars, schemaVars>>

\* save_component_as_template asks the overwrite question
AsksOverwrite(data, file, c, name) ==
    LET templates == load_component_templates(file) IN
    /\ Truthy(ComponentsOf(data).v[c])
    /\ name # <<>>
    /\ Has(templates, c)
    /\ FirstNamed(templates.v[c].v, name) > 0

\* the "+" button of a component: save_component_as_template.  The
\* overwrite question is answered only when it is asked, and the operating
\* system acts only when the store is written.
SaveComponentAsTemplate ==
    /\ CanAct
    /\ \E c \in buttons, name \in TemplateNames :
        LET asks == AsksOverwrite(vehicle_components, templates_file, c, name) IN
        \E confirm \in (IF asks THEN BOOLEAN ELSE {FALSE}) :
        LET writes == save_component_as_template(vehicle_components, templates_file,
                                                 c, name, confirm, "ok").save.called IN
        \E os \in (IF writes THEN OsOutcomes ELSE {"ok"}) :
        LET r == save_component_as_template(vehicle_components, templates_file, c, name, confirm, os)
        IN /\ vehicle_components' = r.data
           /\ templates_file' = r.file
           /\ tmpl_save' = (IF r.save.called THEN r.save ELSE tmpl_save)
           /\ last' = [Op("save_as", c, name, confirm, os, JNone, r.save.raised)
                           EXCEPT !.called = r.save.called]
    /\ UNCHANGED <<vehicle_file, save_result, entry_widgets, widget_order, buttons, editor_open,
                   disabled_entries, migVars, wipeVars, fwVars, schemaVars>>

\* the dropdown button of a component and a click on one of its menu
\* entries: show_template_options, then apply_component_template
ApplyComponentTemplate ==
    /\ CanAct
    /\ \E c \in buttons :
        LET templates == load_component_templates(templates_file)
            component_templates == IF Has(templates, c) THEN templates.v[c].v ELSE <<>>
        IN \E i \in 1..Len(component_templates) :
            LET r == apply_component_template(vehicle_components, entry_widgets, templates_file,
                                              c, component_templates[i])
            IN /\ vehicle_components' = r.data
               /\ entry_widgets' = Inserted(entry_widgets, r.widgets, disabled_entries)
               /\ templates_file' = r.file
               /\ last' = Op("apply", c, <<>>, FALSE, "ok", component_templates[i], "none")
    /\ UNCHANGED <<vehicle_file, save_result, widget_order, buttons, tmpl_save, editor_open,
                   disabled_entries, migVars, wipeVars, fwVars, schemaVars>>

\* validate_and_save_component_json answered yes, or on_closing answered
\* yes: save_component_json
SaveComponentJson ==
    /\ CanAct
    /\ \E os \in OsOutcomes :
        LET r == save_component_json(vehicle_components, entry_widgets, widget_order, vehicle_file, os)
        IN /\ vehicle_components' = r.data
           /\ vehicle_file' = r.file
           /\ save_result' = (IF r.err = "none" THEN r.result ELSE save_result)
           /\ editor_open' = r.open
           /\ last' = Op("save_json", "", <<>>, FALSE, os, JNone, r.err)
    /\ UNCHANGED <<entry_widgets, widget_order, buttons, templates_file, tmpl_save,
                   disabled_entries, migVars, wipeVars, fwVars, schemaVars>>

\* on_closing answered no: the window is destroyed, nothing is saved
CloseWithoutSaving ==
    /\ CanAct
    /\ editor_open' = FALSE
    /\ last' = Op("close", "", <<>>, FALSE, "ok", JNone, "none")
    /\ UNCHANGED <<repoVars, entry_widgets, widget_order, buttons, templates_file, tmpl_save,
                   disabled_entries, migVars, wipeVars, fwVars, schemaVars>>

NextEditor ==
    \/ EditEntry
    \/ SaveComponentAsTemplate
    \/ ApplyComponentTemplate
    \/ SaveComponentJson
    \/ CloseWithoutSaving

SpecEditor == InitEditor /\ [][NextEditor]_vars

\* the templates of category c in store file content f
StoredTemplates(f, c) ==
    LET templates == load_component_templates(f)
    IN IF Has(templates, c) THEN templates.v[c].v ELSE <<>>

\* the categories of store file content f
StoredCategories(f) == DOMAIN load_component_templates(f).v

\* C5: save_component_templates never raises: an OS failure gives
\* (failed = true, non-empty message), and (false, "") is returned only when
\* the file was written
C5_SaveTemplatesNeverRaises ==
    (last.op = "save_as" /\ last.called) =>
        /\ tmpl_save.raised = "none"
        /\ (last.os # "ok" => tmpl_save.failed /\ tmpl_save.msg # "")
        /\ (~tmpl_save.failed /\ tmpl_save.msg = "" => last.os = "ok")

\* C7: applying a template makes Components[category] the template's data
\* and leaves every other category and every top-level field as it was; a
\* template without "data" leaves the whole document as it was
C7_ApplyChangesOnlyCategory ==
    last.op = "apply" =>
        IF Has(last.template, "data")
        THEN /\ ComponentsOf(vehicle_components).v[last.category] = last.template.v["data"]
             /\ ComponentsOf(vehicle_components).k = ComponentsOf(last.doc_before).k
             /\ \A c \in DOMAIN ComponentsOf(last.doc_before).v \ {last.category} :
                    ComponentsOf(vehicle_components).v[c] = ComponentsOf(last.doc_before).v[c]
             /\ vehicle_components.k = last.doc_before.k
             /\ \A key \in DOMAIN last.doc_before.v \ {"Components"} :
                    vehicle_components.v[key] = last.doc_before.v[key]
        ELSE vehicle_components = last.doc_before

\* a template with data of another shape was applied to a component that
\* has a sibling
C7_Witness ==
    /\ last.op = "apply"
    /\ Has(last.template, "data")
    /\ ComponentsOf(last.doc_before).v[last.category] # last.template.v["data"]
    /\ ComponentsOf(vehicle_components).v[last.category] = DataC
    /\ Has(ComponentsOf(vehicle_components), "Frame")

\* C8: only saving a template changes the template store file (applying a
\* template, editing an entry, saving or closing the document do not), and
\* saving a template leaves the live document as it was
C8_StoreAndDocumentIndependent ==
    /\ last.op \in {"apply", "edit", "save_json", "close"} => templates_file = last.store_before
    /\ last.op = "save_as" => vehicle_components = last.doc_before

\* a template was saved, then applied, then the document was stored from
\* the entries: the store file still holds what the save wrote
C8_Witness ==
    /\ last.op = "save_json"
    /\ last.n = 3
    /\ last.err = "none"
    /\ templates_file = last.store_before
    /\ \E i \in 1..Len(StoredTemplates(templates_file, "Battery")) :
          StoredTemplates(templates_file, "Battery")[i].v["name"] = JStr(NameZ)
    /\ ComponentsOf(last.doc_before).v["Battery"] \in {DataA, DataB, DataC}

\* C9: no category of the template store holds two templates of one name
C9_TemplateNamesUnique ==
    \A c \in StoredCategories(templates_file) :
        \A i, j \in 1..Len(StoredTemplates(templates_file, c)) :
            LET ti == StoredTemplates(templates_file, c)[i]
                tj == StoredTemplates(templates_file, c)[j]
            IN (i # j /\ Has(ti, "name") /\ Has(tj, "name")) => ti.v["name"] # tj.v["name"]

\* a template was saved under a name its category already held, into a
\* category of two templates
C9_Witness ==
    /\ last.op = "save_as"
    /\ last.name # <<>>
    /\ FirstNamed(StoredTemplates(last.store_before, last.category), last.name) > 0
    /\ Len(StoredTemplates(templates_file, last.category)) >= 2
    /\ last.store_before # templates_file

\* the state of a save_component_as_template call: the templates of its
\* category before and after, the template it builds and the position of
\* the template that already has the name
SavedBefore == StoredTemplates(last.store_before, last.category)
SavedAfter == StoredTemplates(templates_file, last.category)
SavedNew == Template(last.name, ComponentsOf(last.doc_before).v[last.category])
SavedAt == FirstNamed(SavedBefore, last.name)
OtherCategoriesUnchanged ==
    /\ StoredCategories(templates_file) = StoredCategories(last.store_before) \cup {last.category}
    /\ \A c \in StoredCategories(last.store_before) \ {last.category} :
          StoredTemplates(templates_file, c) = StoredTemplates(last.store_before, c)

\* C10 (as amended): for a non-empty name: a component without data, or a
\* declined overwrite, leaves the store file as it was; a failed write leaves
\* it as it was or truncated; otherwise an existing template of that name is
\* replaced at its position and a new name is appended at the end, every
\* other template of every category unchanged
C10_SaveAsTemplateWhenWritten ==
    (last.op = "save_as" /\ last.name # <<>>) =>
        IF ~Truthy(ComponentsOf(last.doc_before).v[last.category])
        THEN templates_file = last.store_before /\ ~last.called
        ELSE IF SavedAt > 0 /\ ~last.confirm
        THEN templates_file = last.store_before /\ ~last.called
        ELSE IF last.os # "ok"
        THEN templates_file \in {last.store_before, Malformed}
        ELSE IF SavedAt > 0
        THEN SavedAfter = [SavedBefore EXCEPT ![SavedAt] = SavedNew] /\ OtherCategoriesUnchanged
        ELSE SavedAfter = Append(SavedBefore, SavedNew) /\ OtherCategoriesUnchanged

\* the first of two templates was overwritten after the caller confirmed
C10_Witness ==
    /\ last.op = "save_as"
    /\ SavedAt = 1
    /\ last.confirm
    /\ last.os = "ok"
    /\ Len(SavedBefore) = 2
    /\ Len(SavedAfter) = 2
    /\ SavedAfter[1] = SavedNew
    /\ SavedAfter[1] # SavedBefore[1]

\* C10 (original): an existing name is replaced in place when the caller
\* confirms and the store is left alone when the caller declines; a new name
\* is appended at the end
C10_SaveAsTemplateContract ==
    (last.op = "save_as" /\ last.name # <<>>) =>
        IF SavedAt > 0
        THEN IF last.confirm
             THEN SavedAfter = [SavedBefore EXCEPT ![SavedAt] = SavedNew] /\ OtherCategoriesUnchanged
             ELSE templates_file = last.store_before
        ELSE SavedAfter = Append(SavedBefore, SavedNew) /\ OtherCategoriesUnchanged

\* the entries are those populate_frames builds for document doc and each
\* holds str(leaf) of its leaf: no field was edited
FormUnedited(doc, widgets) ==
    LET paths == WidgetPaths(ComponentsOf(doc), <<>>) IN
    /\ DOMAIN widgets = {paths[i] : i \in 1..Len(paths)}
    /\ \A path \in DOMAIN widgets : widgets[path] = StrOf(Resolve(ComponentsOf(doc), path))

\* C21: when save_component_json runs on a form no field of which was
\* edited, every leaf under Components has the same type and value after the
\* save as before it
C21_FormSaveKeepsLeaves ==
    (last.op = "save_json" /\ last.err = "none"
        /\ FormUnedited(last.doc_before, last.widgets_before)) =>
        \A path \in DOMAIN last.widgets_before :
            /\ HasPath(ComponentsOf(vehicle_components), path)
            /\ Resolve(ComponentsOf(vehicle_components), path)
                 = Resolve(ComponentsOf(last.doc_before), path)

\* the last two operations were apply_component_template of a template
\* that has data, then save_component_json
SavedAfterApply ==
    last.op = "save_json" /\ last.prev = "apply" /\ Has(last.prev_template, "data")

\* C22: when save_component_json follows apply_component_template(c, t)
\* with no edit in between, the save raises no navigation error and
\* Components[c] has exactly the keys of t.data
C22_TemplateSurvivesSaving ==
    SavedAfterApply =>
        /\ last.err = "none"
        /\ DOMAIN ComponentsOf(vehicle_components).v[last.prev_category].v
             = DOMAIN last.prev_template.v["data"].v

----------------------------------------------------------------------------
(* Repository calls: load and save of vehicle_components.json *)

MaxCalls == 3

\* schemas the schema file may hold
Name(key) == JStr(<<key>>)
SchemaNested ==
    Dict3("type", Name("object"),
          "required", JList(<<Name("Format version"), Name("Components")>>),
          "properties", Dict1("Components",
                              Dict2("type", Name("object"),
                                    "required", JList(<<Name("Battery")>>))))
SchemaFlat == Dict2("type", Name("object"), "required", JList(<<Name("Components")>>))

SchemaFiles ==
    {FileAbsent, Malformed, WrittenFile(EmptyDict), WrittenFile(SchemaNested),
     WrittenFile(SchemaFlat)}

\* documents handed to save and validate: one with a leaf of every JSON
\* type and keys out of alphabetical order, one that lacks required fields,
\* the empty one, and two json cannot write
DocRich ==
    Dict2("Format version", JInt(1),
          "Components",
          Dict2("Battery",
                Dict3("Specifications", Dict3("Volt", JFloat(-15), "Cells", JInt(-6), "Mass", JFloat(20)),
                      "Notes", JStr(<<>>),
                      "Armed", JBool(FALSE)),
                "Arms",
                Dict3("Tags", JList(<<JInt(10), JStr(<<"1", ".", "0">>), JList(<<>>), EmptyDict>>),
                      "Spare", JNone,
                      "Folding", JBool(TRUE))))
DocNoBattery == Dict2("Components", Dict1("Frame", EmptyDict), "Program version", LeafA)
DocWithObject ==
    Dict2("Format version", JInt(1), "Components", Dict2("Battery", JObject, "Frame", LeafA))
DocWithCycle == Dict1("Components", Dict1("Battery", JCycle))

RepoDocs == {DocRich, DocNoBattery, EmptyDict, DocWithObject, DocWithCycle}

\* what vehicle_components.json may hold when the program starts
RepoFiles == {FileAbsent, Malformed, WrittenFile(DocRich), WrittenFile(DocNoBattery)}

\* __init__ (lines 39-43): no document, no schema
InitRepository ==
    /\ vehicle_components = JNone
    /\ vehicle_file \in RepoFiles
    /\ save_result = NoResult
    /\ schema = JNone
    /\ schema_file \in SchemaFiles
    /\ schema_reads = 0
    /\ call = NoCall
    /\ MigrationIdle /\ WipeIdle /\ FirmwareIdle /\ EditorIdle

\* the record of a call: what it was given and what it found
Called(op, data, os, exc, ret, valid, msg, saved) ==
    [n |-> call.n + 1, op |-> op, data |-> data, os |-> os, exc |-> exc, ret |-> ret,
     valid |-> valid, msg |-> msg, cache_before |-> schema, reads_before |-> schema_reads,
     file_before |-> (IF op \in {"load", "save"} THEN vehicle_file ELSE schema_file),
     vc_before |-> vehicle_components, saved |-> saved]

\* load_vehicle_components_json_data(vehicle_dir)
LoadVehicleComponents ==
    /\ call.n < MaxCalls
    /\ LET Returns(r) ==
               /\ vehicle_components' = r.data
               /\ schema' = r.schema
               /\ schema_reads' = schema_reads + (IF r.read THEN 1 ELSE 0)
               /\ call' = Called("load", JNone, "ok", r.err, r.data, r.valid, <<>>, call.saved)
       IN Returns(load_vehicle_components_json_data(vehicle_file, schema, schema_file))
    /\ UNCHANGED <<vehicle_file, save_result, schema_file, migVars, wipeVars, fwVars, editorVars>>

\* save_vehicle_components_json_data(data, vehicle_dir)
SaveVehicleComponents ==
    /\ call.n < MaxCalls
    /\ \E data \in RepoDocs, os \in SaveOutcomes :
        LET Returns(r) ==
                /\ vehicle_file' = r.file
                /\ save_result' = [failed |-> r.failed, msg |-> r.msg]
                /\ call' = Called("save", data, os, r.exc, JNone, FALSE, r.msg,
                                  IF ~r.failed THEN data
                                  ELSE IF r.file = vehicle_file THEN call.saved ELSE Absent)
        IN Returns(save_vehicle_components_json_data(data, vehicle_file, os))
    /\ UNCHANGED <<vehicle_components, schema, schema_file, schema_reads,
                   migVars, wipeVars, fwVars, editorVars>>

NextRepository == LoadVehicleComponents \/ SaveVehicleComponents

SpecRepository == InitRepository /\ [][NextRepository]_vars

\* the causes a save can fail from
SaveCauses ==
    {"FileNotFoundError", "PermissionError", "IsADirectoryError", "OSError", "TypeError",
     "ValueError", "MemoryError"}

\* the text of a document json_dump wrote to its end, no text otherwise
DocumentText(dumped) == IF dumped.err = "none" THEN JsonText(dumped.toks) ELSE FileAbsent

\* C11: save lets no exception leave the call; a save that failed from a
\* cause returns failed = true with a message that no other cause gets, the
\* message of a missing directory names the directory; (false, "") is
\* returned only when the whole document was written.
C11_SaveReportsEveryFailure ==
    call.op = "save" =>
        /\ save_vehicle_components_json_data(call.data, call.file_before, call.os).raised = "none"
        /\ save_result.failed = (call.exc # "none")
        /\ call.exc # "none" =>
              /\ save_result.failed
              /\ save_result.msg # <<>>
              /\ \A other \in SaveCauses \ {call.exc} : SaveMessage(other)[1] # save_result.msg[1]
        /\ call.exc = "FileNotFoundError" =>
              \E i \in 2..Len(save_result.msg) : save_result.msg[i] = VehicleDir
        /\ (~save_result.failed /\ save_result.msg = <<>>) =>
              /\ call.os = "ok"
              /\ vehicle_file = DocumentText(json_dump(call.data))

C11_Witness ==
    /\ call.op = "save" /\ call.exc = "TypeError" /\ call.os = "ok"
    /\ save_result.failed
    /\ vehicle_file # call.file_before

\* the document a file holds: {} for an absent file and for one that is no JSON
FileDocument(file) ==
    LET Read(r) == IF r.err = "none" THEN r.val ELSE EmptyDict
    IN Read(json_load(file))

\* C12: load returns a document and stores that same document: {} when the
\* file is absent or is no JSON, whatever was stored before; a parsed
\* document that fails validation is returned and stored as parsed.
C12_LoadReturnsAndStores ==
    call.op = "load" =>
        /\ vehicle_components = call.ret
        /\ IsDict(call.ret)
        /\ call.ret = FileDocument(call.file_before)

C12_Witness ==
    /\ call.op = "load" /\ call.exc = "none"
    /\ Truthy(schema) /\ ~call.valid
    /\ vehicle_components = DocNoBattery
    /\ call.vc_before = DocRich

\* C20: a load that follows a save which returned failed = false returns
\* the saved document, keys in the same order and leaves of the same type
\* and value, and stores it.
C20_SaveLoadRoundTrip ==
    (call.op = "load" /\ call.saved # Absent) =>
        /\ call.ret = call.saved
        /\ vehicle_components = call.saved

C20_Witness ==
    /\ call.op = "load" /\ call.saved = DocRich
    /\ call.file_before # FileAbsent
    /\ vehicle_components = DocRich

----------------------------------------------------------------------------
(* Schema calls: load_schema and validate_vehicle_components *)

MaxSchemaCalls == 3

\* documents handed to validate_vehicle_components
ValidateDocs == {DocRich, DocNoBattery, EmptyDict, Dict2("Format version", JInt(1), "Components", LeafA)}

InitSchema ==
    /\ vehicle_components = JNone
    /\ vehicle_file = FileAbsent
    /\ save_result = NoResult
    /\ schema = JNone
    /\ schema_file \in SchemaFiles
    /\ schema_reads = 0
    /\ call = NoCall
    /\ MigrationIdle /\ WipeIdle /\ FirmwareIdle /\ EditorIdle

\* load_schema()
LoadSchema ==
    /\ call.n < MaxSchemaCalls
    /\ LET Returns(r) ==
               /\ schema' = r.schema
               /\ schema_reads' = schema_reads + (IF r.read THEN 1 ELSE 0)
               /\ call' = Called("load_schema", JNone, "ok", r.raised, r.ret, FALSE, <<>>, Absent)
       IN Returns(load_schema(schema, schema_file))
    /\ UNCHANGED <<repoVars, schema_file, migVars, wipeVars, fwVars, editorVars>>

\* validate_vehicle_components(data)
ValidateVehicleComponents ==
    /\ call.n < MaxSchemaCalls
    /\ \E data \in ValidateDocs :
        LET Returns(r) ==
                /\ schema' = r.schema
                /\ schema_reads' = schema_reads + (IF r.read THEN 1 ELSE 0)
                /\ call' = Called("validate", data, "ok", r.raised, r.ret, r.valid, r.msg, Absent)
        IN Returns(validate_vehicle_components(data, schema, schema_file))
    /\ UNCHANGED <<repoVars, schema_file, migVars, wipeVars, fwVars, editorVars>>

\* the schema file is installed, removed or replaced between two calls
ReplaceSchemaFile ==
    /\ call.n < MaxSchemaCalls
    /\ \E file \in SchemaFiles \ {schema_file} :
        /\ schema_file' = file
        /\ call' = Called("replace", JNone, "ok", "none", JNone, FALSE, <<>>, Absent)
    /\ UNCHANGED <<repoVars, schema, schema_reads, migVars, wipeVars, fwVars, editorVars>>

NextSchema == LoadSchema \/ ValidateVehicleComponents \/ ReplaceSchemaFile

SpecSchema == InitSchema /\ [][NextSchema]_vars

\* the schema a call has to go by: the cached one, else the one the file
\* holds, else the empty schema
SchemaInUse ==
    IF call.cache_before # JNone THEN call.cache_before ELSE FileDocument(call.file_before)

\* a field the schema requires is missing from the document, at any depth
RECURSIVE LacksRequired(_, _)
LacksRequired(d, sch) ==
    /\ IsDict(d)
    /\ \/ /\ Has(sch, "required")
          /\ \E i \in 1..Len(sch.v["required"].v) : ~Has(d, sch.v["required"].v[i].v[1])
       \/ /\ Has(sch, "properties")
          /\ \E key \in DOMAIN sch.v["properties"].v :
                Has(d, key) /\ LacksRequired(d.v[key], sch.v["properties"].v[key])

\* C13: validate answers true only when a non-empty schema was loaded and
\* the document satisfies it, and then with an empty message; with an
\* empty or unavailable schema, or a document that lacks a required field,
\* it answers false with a non-empty message.
C13_ValidateContract ==
    call.op = "validate" =>
        /\ call.valid =>
              /\ Truthy(SchemaInUse)
              /\ ValidationError(call.data, SchemaInUse) = <<>>
              /\ call.msg = <<>>
        /\ (~Truthy(SchemaInUse) \/ LacksRequired(call.data, SchemaInUse)) =>
              ~call.valid /\ call.msg # <<>>

C13_Witness ==
    /\ call.op = "validate" /\ call.valid
    /\ call.data = DocRich
    /\ schema = SchemaNested

FileIsJson(file) == json_load(file).err = "none"

\* C14: with a schema in the cache a call returns it and does not open the
\* file; a call that finds the file missing or no JSON returns {} without
\* raising and leaves the cache unset, and every call made with the cache
\* unset opens the file.
C14_SchemaCache ==
    call.op \in {"load_schema", "validate"} =>
        /\ call.cache_before # JNone =>
              /\ call.ret = call.cache_before
              /\ schema = call.cache_before
              /\ schema_reads = call.reads_before
        /\ call.cache_before = JNone => schema_reads = call.reads_before + 1
        /\ (call.cache_before = JNone /\ ~FileIsJson(call.file_before)) =>
              /\ call.ret = EmptyDict
              /\ call.exc = "none"
              /\ schema = JNone
        /\ (call.cache_before = JNone /\ FileIsJson(call.file_before)) =>
              /\ call.ret = FileDocument(call.file_before)
              /\ schema = call.ret

C14_Witness ==
    /\ call.op = "load_schema"
    /\ call.cache_before = SchemaNested
    /\ schema_file = WrittenFile(SchemaFlat)
    /\ call.ret = SchemaNested
    /\ schema_reads = 1

----------------------------------------------------------------------------
(* Values set from outside the form: _set_component_value_and_update_ui *)

MaxSets == 2

\* the paths handed in: the leaves of the documents, paths with a missing
\* intermediate key, a path through a leaf, a path to a new key of an
\* existing component, the path of a component and the empty path
SetPaths ==
    {<<"Battery", "Chemistry">>, <<"Battery", "Cells">>, <<"Frame", "Specifications", "TOW">>,
     <<"Frame", "Armed">>, <<"Notes">>,
     <<"Motors", "Poles">>, <<"Frame", "Dimensions", "TOW">>,
     <<"Notes", "Text">>, <<"Battery", "Chemistry", "Kind", "Text">>,
     <<"Frame", "Colour">>, <<"Frame">>, <<>>}

SetValues == {<<"7">>, <<"L", "i">>}

InitSetValue == InitEditor /\ templates_file = FileAbsent

SetComponentValueAndUpdateUi ==
    /\ editor_open /\ last.n < MaxSets
    /\ \E path \in SetPaths, value \in SetValues :
        LET Returns(r) ==
                /\ vehicle_components' = r.data
                /\ entry_widgets' = r.widgets
                /\ disabled_entries' = r.disabled
                /\ last' = [Op("set_value", "", value, FALSE, "ok", JNone, r.err) EXCEPT !.path = path]
        IN Returns(set_component_value_and_update_ui(vehicle_components, entry_widgets,
                                                     disabled_entries, path, value))
    /\ UNCHANGED <<vehicle_file, save_result, widget_order, buttons, templates_file, tmpl_save,
                   editor_open, migVars, wipeVars, fwVars, schemaVars>>

NextSetValue == SetComponentValueAndUpdateUi

SpecSetValue == InitSetValue /\ [][NextSetValue]_vars

\* an intermediate key of the last path was missing from Components
IntermediateAbsent ==
    NavError(ComponentsOf(last.doc_before), Front(last.path)) = "KeyError"

\* the last path located a leaf under Components
LocatedLeaf ==
    /\ last.path # <<>>
    /\ HasPath(ComponentsOf(last.doc_before), last.path)
    /\ ~IsDict(Resolve(ComponentsOf(last.doc_before), last.path))

\* C15: with an intermediate key missing the call fails with a navigation
\* error and the document is as before; with a path that locates a leaf
\* the value is assigned there, and no other leaf and no key changes.
C15_SetValueAtPath ==
    last.op = "set_value" =>
        /\ IntermediateAbsent =>
              /\ last.err = "KeyError"
              /\ vehicle_components = last.doc_before
        /\ LocatedLeaf =>
              /\ Resolve(vehicle_components, <<"Components">> \o last.path) = JStr(last.name)
              /\ SameKeys(last.doc_before, vehicle_components)
              /\ \A p \in LeafPaths(last.doc_before) \ {<<"Components">> \o last.path} :
                    Resolve(vehicle_components, p) = Resolve(last.doc_before, p)

C15_Witness ==
    /\ last.op = "set_value"
    /\ last.path = <<"Frame", "Specifications", "TOW">>
    /\ LocatedLeaf
    /\ last.err = "none"
    /\ Resolve(last.doc_before, <<"Components", "Frame", "Specifications", "TOW">>) = JFloat(15)
    /\ Resolve(vehicle_components, <<"Components", "Frame", "Specifications", "TOW">>) = JStr(<<"7">>)

====
